---------------------------- MODULE Spec2Model ----------------------------
(***************************************************************************)
(* A model of the SSD1306 I2C driver (src/src/ssd1306.c): the packed       *)
(* framebuffer, the dirty-region tracker, the bus transactions of          *)
(* _ssd1306_send_cmd_list and ssd1306_update_screen, and the drawing       *)
(* primitives that write the framebuffer.                                  *)
(*                                                                         *)
(* The driver state (struct ssd1306_dev_t) is carried through the drawing  *)
(* code as a record d; every C function that takes the handle is an        *)
(* operator from d to the d it leaves behind.  Besides the struct's own    *)
(* fields the record carries three observation fields that the C code      *)
(* does not have: wrote (the framebuffer bits stored to), oob/hang (a      *)
(* store outside the framebuffer, a loop that cannot end) and marked (the  *)
(* cells of the rectangles handed to _ssd1306_mark_dirty, clipped to the   *)
(* screen, since the last reset).                                          *)
(***************************************************************************)
EXTENDS Integers, Sequences, FiniteSets, TLC

VARIABLES
    buffer,        \* handle->buffer : [0 .. buffer_size-1 -> 0..255]
    needs_update,  \* handle->needs_update
    min_col,       \* handle->min_col  (uint8_t)
    max_col,       \* handle->max_col  (uint8_t)
    min_page,      \* handle->min_page (uint8_t)
    max_page,      \* handle->max_page (uint8_t)
    ram,           \* the panel's display RAM, same layout as buffer
    win,           \* the panel's address window (last 0x21 / 0x22 received)
    bus,           \* the bus transactions of the last call, in order
    hist,          \* the last calls, most recent first
    pre,           \* the tracker as it was when the last call began
    bufs,          \* the framebuffer before the last call, and before the one before
    wrote,         \* framebuffer bits <<index, bit>> the last call stored to
    oob,           \* the last call stored outside the framebuffer
    hang,          \* the last call entered a loop that cannot end
    marked,        \* clipped cells <<col, page>> marked since the last reset
    steps,         \* number of calls made
    out_handle,    \* the caller's ssd1306_handle_t variable: "NULL" or "live"
    held,          \* what is held: handle structs, framebuffers, installed bus drivers
    text,          \* the handle's graphics state (cursor, text size, colors, wrap, font)
    fault          \* "none", or how the program stopped: "abort", "null_deref"

vars == <<buffer, needs_update, min_col, max_col, min_page, max_page, ram, win,
          bus, hist, pre, bufs, wrote, oob, hang, marked, steps,
         out_handle, held, text, fault>>

----------------------------------------------------------------------------
(* Bounds of the model *)

\* config.screen_width of the modelled panel
ScreenWidth == 4
\* config.screen_height / 8 of the modelled panel
ScreenPages == 3
\* calls per run
MaxOps == 3
\* bus attempts whose outcome a run chooses
MaxAttempts == 4
\* calls in a run of SpecDraw
DrawOps == 2
\* calls in a run of SpecPixel
PixelOps == 2
\* calls in a run of SpecLine
LineOps == 2
\* calls in a run of SpecShift
ShiftOps == 2

ScreenHeight == 8 * ScreenPages

(* Program constants *)

OLED_COLOR_BLACK == 0
OLED_COLOR_WHITE == 1
OLED_COLOR_INVERT == 2
OLED_CONTROL_BYTE_CMD_STREAM == 0
OLED_CONTROL_BYTE_DATA_STREAM == 64
OLED_CMD_SET_COLUMN_RANGE == 33
OLED_CMD_SET_PAGE_RANGE == 34
CmdRetries == 3

Colors == {OLED_COLOR_BLACK, OLED_COLOR_WHITE, OLED_COLOR_INVERT}

----------------------------------------------------------------------------
(* C integer conversions and bit operations *)

ToI16(v) == ((v + 32768) % 65536) - 32768
ToU16(v) == v % 65536
ToU8(v) == v % 256

Pow2(k) == 2 ^ k
BitOf(b, k) == (b \div Pow2(k)) % 2
\* b | (1 << k)
OrBit(b, k) == IF BitOf(b, k) = 1 THEN b ELSE b + Pow2(k)
\* b & ~(1 << k)
ClearBit(b, k) == IF BitOf(b, k) = 1 THEN b - Pow2(k) ELSE b
\* b ^ (1 << k)
XorBit(b, k) == IF BitOf(b, k) = 1 THEN b - Pow2(k) ELSE b + Pow2(k)

\* a switch whose INVERT case sets the bit instead of toggling it
ApplyColorInvertSets(b, k, color) ==
    CASE color = OLED_COLOR_WHITE  -> OrBit(b, k)
      [] color = OLED_COLOR_BLACK  -> ClearBit(b, k)
      [] color = OLED_COLOR_INVERT -> OrBit(b, k)
      [] OTHER -> b

\* the switch (color) of the drawing primitives, on one byte
ApplyColor(b, k, color) ==
    CASE color = OLED_COLOR_WHITE  -> OrBit(b, k)
      [] color = OLED_COLOR_BLACK  -> ClearBit(b, k)
      [] color = OLED_COLOR_INVERT -> XorBit(b, k)
      [] OTHER -> b

\* handle->buffer_size = (screen_width * screen_height) / 8
BufferSize == (ScreenWidth * ScreenHeight) \div 8
BufIdx == 0 .. (BufferSize - 1)

Min2(a, b) == IF a < b THEN a ELSE b
Max2(a, b) == IF a > b THEN a ELSE b

----------------------------------------------------------------------------
(* The dirty-region tracker *)

\* the cells <<col, page>> of the rectangle (x, y, w, h) that lie on the screen
ClipCells(x, y, w, h) ==
    { c \in (0 .. ScreenWidth - 1) \X (0 .. ScreenPages - 1) :
        /\ w > 0 /\ h > 0
        /\ Max2(x, 0) <= c[1] /\ c[1] <= Min2(x + w - 1, ScreenWidth - 1)
        /\ Max2(y, 0) \div 8 <= c[2]
        /\ c[2] <= Min2(y + h - 1, ScreenHeight - 1) \div 8
        /\ Max2(y, 0) <= Min2(y + h - 1, ScreenHeight - 1) }

\* a reset that forgets to clear the flag
ResetKeepsFlag(d) ==
    [d EXCEPT !.min_col = ToU8(ScreenWidth), !.max_col = 0,
              !.min_page = ToU8(ScreenHeight \div 8), !.max_page = 0, !.marked = {}]

ssd1306_reset_dirty_area(d) ==
    [d EXCEPT !.needs_update = FALSE,
              !.min_col = ToU8(ScreenWidth),
              !.max_col = 0,
              !.min_page = ToU8(ScreenHeight \div 8),
              !.max_page = 0,
              !.marked = {}]

\* a mark that replaces the tracked rectangle instead of growing it
MarkDirtyReplaces(d, x, y, w, h) ==
    IF x >= ScreenWidth \/ y >= ScreenHeight \/ x + w <= 0 \/ y + h <= 0
    THEN d
    ELSE [d EXCEPT !.min_col = ToU8(Max2(x, 0)),
                   !.max_col = ToU8(Min2(x + w - 1, ScreenWidth - 1)),
                   !.min_page = ToU8(Max2(y, 0) \div 8),
                   !.max_page = ToU8(Min2(y + h - 1, ScreenHeight - 1) \div 8),
                   !.needs_update = TRUE]

MarkDirtyCode(d, x, y, w, h) ==
    IF x >= ScreenWidth \/ y >= ScreenHeight \/ x + w <= 0 \/ y + h <= 0
    THEN d
    ELSE LET x1 == IF x > 0 THEN x ELSE 0
             y1 == IF y > 0 THEN y ELSE 0
             x2 == ToI16(IF (x + w - 1) < ScreenWidth THEN x + w - 1 ELSE ScreenWidth - 1)
             y2 == ToI16(IF (y + h - 1) < ScreenHeight THEN y + h - 1 ELSE ScreenHeight - 1)
             page1 == ToU8(y1 \div 8)
             page2 == ToU8(y2 \div 8)
         IN [d EXCEPT !.min_col = IF x1 < d.min_col THEN ToU8(x1) ELSE d.min_col,
                      !.max_col = IF x2 > d.max_col THEN ToU8(x2) ELSE d.max_col,
                      !.min_page = IF page1 < d.min_page THEN page1 ELSE d.min_page,
                      !.max_page = IF page2 > d.max_page THEN page2 ELSE d.max_page,
                      !.needs_update = TRUE]

\* _ssd1306_mark_dirty, with the record of what was asked to be marked
ssd1306_mark_dirty(d, x, y, w, h) ==
    [MarkDirtyCode(d, x, y, w, h) EXCEPT !.marked = d.marked \cup ClipCells(x, y, w, h)]

----------------------------------------------------------------------------
(* Stores to the framebuffer *)

\* handle->buffer[index] op= (1 << bit_pos), per the switch on color
StoreBit(d, index, bit_pos, color) ==
    IF color \notin Colors THEN d
    ELSE IF index \in BufIdx
    THEN [d EXCEPT !.buffer[index] = ApplyColor(@, bit_pos, color),
                   !.wrote = @ \cup {<<index, bit_pos>>}]
    ELSE [d EXCEPT !.oob = TRUE]

\* a pixel store whose right-hand clip is off by one column
DrawPixelClipsLate(d, x, y, color) ==
    IF x < 0 \/ x > ScreenWidth \/ y < 0 \/ y >= ScreenHeight THEN d
    ELSE LET index == x + (y \div 8) * ScreenWidth
             bit_pos == y % 8
         IN ssd1306_mark_dirty(StoreBit(d, index, bit_pos, color), x, y, 1, 1)

ssd1306_draw_pixel(d, x, y, color) ==
    IF x < 0 \/ x >= ScreenWidth \/ y < 0 \/ y >= ScreenHeight THEN d
    ELSE LET index == x + (y \div 8) * ScreenWidth
             bit_pos == y % 8
         IN ssd1306_mark_dirty(StoreBit(d, index, bit_pos, color), x, y, 1, 1)


\* for (i = y; i < y_end; ++i) of ssd1306_draw_fast_vline: the loop stores once to
\* bit i % 8 of byte x + (i / 8) * width for each row i, and x and i are on the
\* screen when the loop is entered, so every store lands in the framebuffer
VLineLoop(d, x, y, y_end, color) ==
    LET rows == { i \in 0 .. ScreenHeight - 1 : y <= i /\ i < y_end }
        hit == { <<x + (i \div 8) * ScreenWidth, i % 8>> : i \in rows }
        Stored(b, idx, k) == IF <<idx, k>> \in hit THEN ApplyColor(b, k, color) ELSE b
        Byte(idx) ==
            Stored(Stored(Stored(Stored(Stored(Stored(Stored(Stored(
                d.buffer[idx], idx, 0), idx, 1), idx, 2), idx, 3), idx, 4), idx, 5),
                idx, 6), idx, 7)
    IN [d EXCEPT !.buffer = [idx \in BufIdx |-> Byte(idx)],
                 !.wrote = IF color \in Colors THEN @ \cup hit ELSE @]

ssd1306_draw_fast_vline(d, x, y, h, color) ==
    IF x < 0 \/ x >= ScreenWidth \/ h = 0 THEN d
    ELSE LET yn == IF h < 0 THEN ToI16(y + h) ELSE y
             hn == IF h < 0 THEN ToI16(-h) ELSE h
         IN IF yn >= ScreenHeight THEN d
            ELSE LET ye == ToI16(yn + hn)
                     y_end == IF ye > ScreenHeight THEN ScreenHeight ELSE ye
                     yc == IF yn < 0 THEN 0 ELSE yn
                 IN VLineLoop(ssd1306_mark_dirty(d, x, yc, 1, ToI16(y_end - yc)),
                              x, yc, y_end, color)

\* for (uint16_t i = index_start; i <= index_end; ++i) of ssd1306_draw_fast_hline:
\* the stores that land in the framebuffer, and whether one landed outside it
HLineLoop(d, index_start, index_end, bit_pos, color) ==
    LET hit == { i \in BufIdx : index_start <= i /\ i <= index_end }
        out == index_start <= index_end /\ index_end >= BufferSize
    IN [d EXCEPT !.buffer = [i \in BufIdx |->
                                IF i \in hit THEN ApplyColor(d.buffer[i], bit_pos, color)
                                ELSE d.buffer[i]],
                 !.wrote = IF color \in Colors
                           THEN @ \cup { <<i, bit_pos>> : i \in hit } ELSE @,
                 !.oob = @ \/ out,
                 !.hang = @ \/ (index_end = 65535)]

ssd1306_draw_fast_hline(d, x, y, w, color) ==
    IF y < 0 \/ y >= ScreenHeight \/ w = 0 THEN d
    ELSE LET xn == IF w < 0 THEN ToI16(x + w) ELSE x
             wn == IF w < 0 THEN ToI16(-w) ELSE w
         IN IF xn >= ScreenWidth THEN d
            ELSE LET xe == ToI16(xn + wn)
                     x_end == IF xe > ScreenWidth THEN ScreenWidth ELSE xe
                     xc == IF xn < 0 THEN 0 ELSE xn
                     page == y \div 8
                     index_start == ToU16(xc + page * ScreenWidth)
                     index_end == ToU16((x_end - 1) + page * ScreenWidth)
                 IN HLineLoop(ssd1306_mark_dirty(d, xc, y, ToI16(x_end - xc), 1),
                              index_start, index_end, y % 8, color)

ssd1306_draw_rect(d, x, y, w, h, color) ==
    LET d1 == ssd1306_draw_fast_hline(d, x, y, w, color)
        d2 == ssd1306_draw_fast_hline(d1, x, ToI16(y + h - 1), w, color)
        d3 == ssd1306_draw_fast_vline(d2, x, y, h, color)
    IN ssd1306_draw_fast_vline(d3, ToI16(x + w - 1), y, h, color)

RECURSIVE FillRectLoop(_, _, _, _, _, _)
\* for (i = x; i < x_end; i++) of ssd1306_fill_rect
FillRectLoop(d, i, x_end, y, h, color) ==
    IF i < x_end /\ ~d.hang
    THEN FillRectLoop(ssd1306_draw_fast_vline(d, i, y, h, color), i + 1, x_end, y, h, color)
    ELSE d

ssd1306_fill_rect(d, x, y, w, h, color) ==
    IF w <= 0 \/ h <= 0 THEN d
    ELSE IF x >= ScreenWidth \/ y >= ScreenHeight THEN d
    ELSE IF x + w < 0 \/ y + h < 0 THEN d
    ELSE LET xe == ToI16(x + w)
             xc == IF x < 0 THEN 0 ELSE x
             x_end == IF xe > ScreenWidth THEN ScreenWidth ELSE xe
         IN FillRectLoop(ssd1306_mark_dirty(d, xc, y, ToI16(x_end - xc), h),
                         xc, x_end, y, h, color)

Abs(a) == IF a < 0 THEN -a ELSE a

RECURSIVE LineLoop(_, _, _, _, _, _, _, _, _)
\* for (; x0 <= x1; x0++) of ssd1306_draw_line (Bresenham)
LineLoop(d, x0, x1, y0, err, dx, dy, ystep, sc) ==
    IF x0 <= x1 /\ ~d.hang
    THEN LET d1 == IF sc.steep THEN ssd1306_draw_pixel(d, y0, x0, sc.color)
                   ELSE ssd1306_draw_pixel(d, x0, y0, sc.color)
             e1 == ToI16(err - dy)
         IN IF x0 = 32767 THEN [d1 EXCEPT !.hang = TRUE]
            ELSE IF e1 < 0
                 THEN LineLoop(d1, x0 + 1, x1, ToI16(y0 + ystep), ToI16(e1 + dx),
                               dx, dy, ystep, sc)
                 ELSE LineLoop(d1, x0 + 1, x1, y0, e1, dx, dy, ystep, sc)
    ELSE d

\* an axis-aligned line that stops one pixel short of its end point
DrawLineStopsShort(d, x0, y0, x1, y1, color) ==
    IF x0 = x1 THEN ssd1306_draw_fast_vline(d, x0, y0, ToI16(y1 - y0), color)
    ELSE ssd1306_draw_fast_hline(d, x0, y0, ToI16(x1 - x0), color)

ssd1306_draw_line(d, x0, y0, x1, y1, color) ==
    IF x0 = x1 THEN ssd1306_draw_fast_vline(d, x0, y0, ToI16(y1 - y0 + 1), color)
    ELSE IF y0 = y1 THEN ssd1306_draw_fast_hline(d, x0, y0, ToI16(x1 - x0 + 1), color)
    ELSE LET steep == Abs(y1 - y0) > Abs(x1 - x0)
             a0 == IF steep THEN y0 ELSE x0
             b0 == IF steep THEN x0 ELSE y0
             a1 == IF steep THEN y1 ELSE x1
             b1 == IF steep THEN x1 ELSE y1
             sx0 == IF a0 > a1 THEN a1 ELSE a0
             sy0 == IF a0 > a1 THEN b1 ELSE b0
             sx1 == IF a0 > a1 THEN a0 ELSE a1
             sy1 == IF a0 > a1 THEN b0 ELSE b1
             dx == ToI16(sx1 - sx0)
             dy == ToI16(Abs(sy1 - sy0))
             err == dx \div 2
             ystep == IF sy0 < sy1 THEN 1 ELSE -1
         IN LineLoop(d, sx0, sx1, sy0, err, dx, dy, ystep,
                     [steep |-> steep, color |-> color])

\* a fill that forgets to mark the screen
FillBufferNoMark(d, color) ==
    [d EXCEPT !.buffer = [i \in BufIdx |-> IF color = OLED_COLOR_BLACK THEN 0 ELSE 255],
              !.wrote = { <<i, k>> : i \in BufIdx, k \in 0 .. 7 }]

\* memset(buffer, color == BLACK ? 0x00 : 0xFF, buffer_size), then mark the screen
ssd1306_fill_buffer(d, color) ==
    ssd1306_mark_dirty(
        [d EXCEPT !.buffer = [i \in BufIdx |-> IF color = OLED_COLOR_BLACK THEN 0 ELSE 255],
                  !.wrote = { <<i, k>> : i \in BufIdx, k \in 0 .. 7 }],
        0, 0, ScreenWidth, ScreenHeight)

ssd1306_clear_buffer(d) == ssd1306_fill_buffer(d, OLED_COLOR_BLACK)

RECURSIVE BitmapLoop(_, _, _, _, _)
\* the two nested loops of ssd1306_draw_bitmap_bg; byte is the loop-carried
\* variable of the same name, p the call's arguments
BitmapLoop(d, byte, p, j, i) ==
    IF j >= p.h THEN d
    ELSE LET current_y == ToI16(p.y + j)
         IN IF current_y < 0 \/ current_y >= ScreenHeight
            THEN BitmapLoop(d, byte, p, j + 1, 0)
            ELSE IF i >= p.w THEN BitmapLoop(d, byte, p, j + 1, 0)
            ELSE LET current_x == ToI16(p.x + i)
                 IN IF current_x < 0 \/ current_x >= ScreenWidth
                    THEN BitmapLoop(d, byte, p, j, i + 1)
                    ELSE LET byte_width == (p.w + 7) \div 8
                             b == IF i % 8 # 0 THEN ToU8(byte * 2)
                                  ELSE p.bitmap[j * byte_width + i \div 8]
                             pixel_color == IF BitOf(b, 7) = 1 THEN p.color ELSE p.bg_color
                             bg == p.color # p.bg_color
                             d1 == IF bg \/ pixel_color = p.color
                                   THEN StoreBit(d, current_x + (current_y \div 8) * ScreenWidth,
                                                 current_y % 8, pixel_color)
                                   ELSE d
                         IN BitmapLoop(d1, b, p, j, i + 1)

ssd1306_draw_bitmap_bg(d, x, y, bitmap, w, h, color, bg_color) ==
    IF x >= ScreenWidth \/ y >= ScreenHeight \/ (x + w) <= 0 \/ (y + h) <= 0 THEN d
    ELSE BitmapLoop(ssd1306_mark_dirty(d, x, y, w, h), 0,
                    [x |-> x, y |-> y, w |-> w, h |-> h, bitmap |-> bitmap,
                     color |-> color, bg_color |-> bg_color], 0, 0)

ssd1306_draw_bitmap(d, x, y, bitmap, w, h, color) ==
    ssd1306_draw_bitmap_bg(d, x, y, bitmap, w, h, color, color)

----------------------------------------------------------------------------
(* ssd1306_shift_framebuffer *)

\* sizeof(temp_buffer)
TempBufferSize == 1024

\* a % n of C, for n > 0: the remainder has the sign of a
CRem(a, n) == IF a >= 0 THEN a % n ELSE -((-a) % n)

\* the pixel (x, y) of framebuffer b is on
PixelOn(b, x, y) == BitOf(b[x + (y \div 8) * ScreenWidth], y % 8) = 1

\* where the inner loop body sends the source pixel: int16_t dst_x = src_x + dx,
\* int16_t dst_y = src_y + dy, then the wrap
DstOf(src_x, src_y, dx, dy, wrap) ==
    LET dst_x == ToI16(src_x + dx)
        dst_y == ToI16(src_y + dy)
    IN IF wrap
       THEN <<CRem(CRem(dst_x, ScreenWidth) + ScreenWidth, ScreenWidth),
              CRem(CRem(dst_y, ScreenHeight) + ScreenHeight, ScreenHeight)>>
       ELSE <<dst_x, dst_y>>

\* steps 1 to 3 of the pixel-by-pixel path: the framebuffer is cleared and every
\* pixel that was on is set at its destination when that is on the screen
ShiftPixels(b, dx, dy, wrap) ==
    LET on == { DstOf(x, y, dx, dy, wrap) :
                  <<x, y>> \in { q \in (0 .. ScreenWidth - 1) \X (0 .. ScreenHeight - 1) :
                                   PixelOn(b, q[1], q[2]) } }
        Bit(idx, k) == IF <<idx % ScreenWidth, (idx \div ScreenWidth) * 8 + k>> \in on
                       THEN Pow2(k) ELSE 0
    IN [idx \in BufIdx |->
           Bit(idx, 0) + Bit(idx, 1) + Bit(idx, 2) + Bit(idx, 3)
             + Bit(idx, 4) + Bit(idx, 5) + Bit(idx, 6) + Bit(idx, 7)]

\* the memmove / memset of the fast path, dy == 0 && !wrap.  shift_abs is an
\* int16_t: for dx = -32768 it is -32768 again, the test shift_abs < width
\* passes and memmove is handed a source before the framebuffer (oob)
ShiftBytes(d, dx) ==
    LET shift_abs == ToI16(IF dx > 0 THEN dx ELSE -dx)
    IN IF shift_abs < ScreenWidth
       THEN IF dx > 0
            THEN [d EXCEPT !.buffer = [i \in BufIdx |-> IF i < dx THEN 0 ELSE d.buffer[i - dx]]]
            ELSE IF shift_abs < 0
                 THEN [d EXCEPT !.oob = TRUE]
                 ELSE [d EXCEPT !.buffer = [i \in BufIdx |->
                                  IF i + shift_abs < BufferSize THEN d.buffer[i + shift_abs]
                                  ELSE 0]]
       ELSE [d EXCEPT !.buffer = [i \in BufIdx |-> 0]]

ssd1306_shift_framebuffer(d, dx, dy, wrap) ==
    IF dx = 0 /\ dy = 0 THEN d
    ELSE IF dy = 0 /\ ~wrap
    THEN ssd1306_mark_dirty(ShiftBytes(d, dx), 0, 0, ScreenWidth, ScreenHeight)
    ELSE IF BufferSize > TempBufferSize THEN d
    ELSE ssd1306_mark_dirty([d EXCEPT !.buffer = ShiftPixels(d.buffer, dx, dy, wrap)],
                            0, 0, ScreenWidth, ScreenHeight)

----------------------------------------------------------------------------
(* The bus and the panel *)

\* outs[k] is whether the k-th i2c_master_cmd_begin of a call returns ESP_OK
Outcomes == [1 .. MaxAttempts -> BOOLEAN]

RECURSIVE CmdRetryLoop4(_, _)
\* the retry loop with one attempt too many
CmdRetryLoop4(retry, outs) ==
    IF retry < CmdRetries + 1
    THEN IF outs[retry + 1]
         THEN [ret |-> "ESP_OK", results |-> <<TRUE>>]
         ELSE LET r == CmdRetryLoop4(retry + 1, outs)
              IN [ret |-> r.ret, results |-> <<FALSE>> \o r.results]
    ELSE [ret |-> "ESP_FAIL", results |-> <<>>]

RECURSIVE CmdRetryLoop(_, _)
\* for (int retry = 0; retry < 3; retry++) of _ssd1306_send_cmd_list: the value
\* returned and what each i2c_master_cmd_begin made returned, in order
CmdRetryLoop(retry, outs) ==
    IF retry < CmdRetries
    THEN IF outs[retry + 1]
         THEN [ret |-> "ESP_OK", results |-> <<TRUE>>]
         ELSE LET r == CmdRetryLoop(retry + 1, outs)
              IN [ret |-> r.ret, results |-> <<FALSE>> \o r.results]
    ELSE [ret |-> "ESP_FAIL", results |-> <<>>]

\* _ssd1306_send_cmd_list on a live handle: the value returned and the
\* transaction as the bus saw it
ssd1306_send_cmd_list(cmd_list, outs) ==
    LET r == CmdRetryLoop(0, outs)
    IN [ret |-> r.ret,
        tx |-> [ctl |-> OLED_CONTROL_BYTE_CMD_STREAM, bytes |-> cmd_list,
                len |-> Len(cmd_list), results |-> r.results,
                ok |-> r.ret = "ESP_OK", oobread |-> FALSE]]

\* i2c_master_write(cmd, &handle->buffer[offset], len, true) for one page:
\* the bytes read from the framebuffer, and whether the read runs past its end
PageBytes(d, page) ==
    LET offset == ToU16(page * ScreenWidth + d.min_col)
        len == ToU16(d.max_col - d.min_col + 1)
        last == Min2(offset + len - 1, BufferSize - 1)
    IN [bytes |-> [k \in 1 .. Max2(last - offset + 1, 0) |-> d.buffer[offset + k - 1]],
        len |-> len,
        oobread |-> len > 0 /\ offset + len > BufferSize]

RECURSIVE PayloadLoop(_, _, _)
\* for (uint8_t page = min_page; page <= max_page; ++page) of ssd1306_update_screen
PayloadLoop(d, page, acc) ==
    IF page <= d.max_page
    THEN LET pb == PageBytes(d, page)
         IN PayloadLoop(d, page + 1,
                        [bytes |-> acc.bytes \o pb.bytes, len |-> acc.len + pb.len,
                         oobread |-> acc.oobread \/ pb.oobread])
    ELSE acc

\* the panel takes a command transaction: 0x21 a b 0x22 c e sets the window
PanelCmd(w, bytes) ==
    IF Len(bytes) = 6 /\ bytes[1] = OLED_CMD_SET_COLUMN_RANGE /\ bytes[4] = OLED_CMD_SET_PAGE_RANGE
    THEN [c0 |-> bytes[2], c1 |-> bytes[3], p0 |-> bytes[5], p1 |-> bytes[6]]
    ELSE w

\* the panel takes a data transaction (horizontal addressing mode): byte k of the
\* stream goes to column c0 + k mod ncols of page p0 + k div ncols.  A stream
\* read from outside the framebuffer carries unknown bytes (junk).
PanelData(r, w, tx, junk) ==
    IF tx.len = 0 THEN r
    ELSE IF tx.oobread \/ w.c0 > w.c1 \/ w.p0 > w.p1 THEN [i \in BufIdx |-> junk]
    ELSE LET ncols == w.c1 - w.c0 + 1
         IN [i \in BufIdx |->
               LET c == i % ScreenWidth
                   p == i \div ScreenWidth
                   k == (p - w.p0) * ncols + (c - w.c0)
               IN IF w.c0 <= c /\ c <= w.c1 /\ w.p0 <= p /\ p <= w.p1 /\ k < Len(tx.bytes)
                  THEN tx.bytes[k + 1] ELSE r[i]]

\* ssd1306_update_screen on a live handle.  io: outs (the command attempts),
\* link (i2c_cmd_link_create succeeds), data (the data transaction succeeds),
\* junk (what an out-of-bounds read delivers)
ssd1306_update_screen(d, r, w, io) ==
    IF ~d.needs_update
    THEN [d |-> d, ret |-> "ESP_OK", bus |-> <<>>, ram |-> r, win |-> w]
    ELSE LET cmds == <<OLED_CMD_SET_COLUMN_RANGE, d.min_col, d.max_col,
                       OLED_CMD_SET_PAGE_RANGE, d.min_page, d.max_page>>
             c == ssd1306_send_cmd_list(cmds, io.outs)
             w1 == IF c.tx.ok THEN PanelCmd(w, cmds) ELSE w
         IN IF c.ret # "ESP_OK"
            THEN [d |-> d, ret |-> c.ret, bus |-> <<c.tx>>, ram |-> r, win |-> w1]
            ELSE IF ~io.link
            THEN [d |-> d, ret |-> "ESP_ERR_NO_MEM", bus |-> <<c.tx>>, ram |-> r, win |-> w1]
            ELSE LET pl == PayloadLoop(d, d.min_page,
                                       [bytes |-> <<>>, len |-> 0, oobread |-> FALSE])
                     tx == [ctl |-> OLED_CONTROL_BYTE_DATA_STREAM, bytes |-> pl.bytes,
                            len |-> pl.len, results |-> <<io.data>>, ok |-> io.data,
                            oobread |-> pl.oobread]
                 IN [d |-> ssd1306_reset_dirty_area(d),
                     ret |-> IF io.data THEN "ESP_OK" ELSE "ESP_FAIL",
                     bus |-> <<c.tx, tx>>,
                     ram |-> IF io.data THEN PanelData(r, w1, tx, io.junk) ELSE r,
                     win |-> w1]

----------------------------------------------------------------------------
(* State and calls *)

\* the handle's fields as the record the operators above work on
Dev ==
    [buffer |-> buffer, needs_update |-> needs_update, min_col |-> min_col,
     max_col |-> max_col, min_page |-> min_page, max_page |-> max_page,
     wrote |-> {}, oob |-> FALSE, hang |-> FALSE, marked |-> marked]

Tracker(d) ==
    [needs_update |-> d.needs_update, min_col |-> d.min_col, max_col |-> d.max_col,
     min_page |-> d.min_page, max_page |-> d.max_page]

\* the handle as ssd1306_create leaves it on success, with framebuffer b
Created(b) ==
    ssd1306_reset_dirty_area(
        [buffer |-> b, needs_update |-> FALSE, min_col |-> 0, max_col |-> 0,
         min_page |-> 0, max_page |-> 0, wrote |-> {}, oob |-> FALSE, hang |-> FALSE,
         marked |-> {}])

FullWindow == [c0 |-> 0, c1 |-> ScreenWidth - 1, p0 |-> 0, p1 |-> ScreenPages - 1]

NData(log) == Cardinality({k \in DOMAIN log : log[k].ctl = OLED_CONTROL_BYTE_DATA_STREAM})
NCmd(log) == Cardinality({k \in DOMAIN log : log[k].ctl = OLED_CONTROL_BYTE_CMD_STREAM})

\* a call returns: the handle's drawing fields, the panel and the record of the call
CommitCore(d, op, args, ret, log, r, w) ==
    /\ buffer' = d.buffer
    /\ needs_update' = d.needs_update
    /\ min_col' = d.min_col
    /\ max_col' = d.max_col
    /\ min_page' = d.min_page
    /\ max_page' = d.max_page
    /\ marked' = d.marked
    /\ wrote' = d.wrote
    /\ oob' = d.oob
    /\ hang' = d.hang
    /\ ram' = r
    /\ win' = w
    /\ bus' = log
    /\ hist' = <<[op |-> op, args |-> args, ret |-> ret, ndata |-> NData(log),
                 ncmd |-> NCmd(log), dirty |-> needs_update,
                 prev |-> IF hist = <<>> THEN "create" ELSE hist[1].op]>>
               \o (IF hist = <<>> THEN <<>> ELSE <<hist[1]>>)
    /\ pre' = Tracker(Dev)
    /\ bufs' = <<buffer>> \o (IF bufs = <<>> THEN <<>> ELSE <<bufs[1]>>)
    /\ steps' = steps + 1

\* a call on a live handle that neither creates nor deletes nor touches the
\* graphics state
Commit(d, op, args, ret, log, r, w) ==
    /\ CommitCore(d, op, args, ret, log, r, w)
    /\ UNCHANGED <<out_handle, held, text, fault>>

\* a drawing call: no bus traffic, no status
Draw(d, op, args) == Commit(d, op, args, "void", <<>>, ram, win)

\* a further call can be made: the run is within n calls and the last call
\* neither corrupted memory nor failed to return
CanCall(n) == steps < n /\ ~oob /\ ~hang /\ fault = "none"

\* a default graphics state with wrap left as calloc set it
DefaultTextNoWrap ==
    [cursor_x |-> 0, cursor_y |-> 0, textsize_x |-> 1, textsize_y |-> 1,
     textcolor |-> OLED_COLOR_WHITE, textbgcolor |-> OLED_COLOR_BLACK,
     wrap |-> FALSE, gfxFont |-> "FONT_5x7", moved |-> FALSE]

\* the graphics state ssd1306_create sets; moved: the cursor has left the
\* origin since, by ssd1306_set_cursor or by a write
DefaultText ==
    [cursor_x |-> 0, cursor_y |-> 0, textsize_x |-> 1, textsize_y |-> 1,
     textcolor |-> OLED_COLOR_WHITE, textbgcolor |-> OLED_COLOR_BLACK,
     wrap |-> TRUE, gfxFont |-> "FONT_5x7", moved |-> FALSE]

\* what one successful ssd1306_create holds
OneInstance == [handle |-> 1, buffer |-> 1, driver |-> 1, double_free |-> FALSE,
                released |-> 0]

InitWith(b) ==
    LET d == Created(b)
    IN /\ buffer = d.buffer
       /\ needs_update = d.needs_update
       /\ min_col = d.min_col
       /\ max_col = d.max_col
       /\ min_page = d.min_page
       /\ max_page = d.max_page
       /\ marked = {}
       /\ wrote = {}
       /\ oob = FALSE
       /\ hang = FALSE
       /\ ram = b
       /\ win = FullWindow
       /\ bus = <<>>
       /\ hist = <<>>
       /\ pre = Tracker(d)
       /\ bufs = <<>>
       /\ steps = 0
       /\ out_handle = "live"
       /\ held = OneInstance
       /\ text = DefaultText
       /\ fault = "none"

ZeroBuffer == [i \in BufIdx |-> 0]

\* ssd1306_create returned ESP_OK: cleared framebuffer, flushed once in full
Init == InitWith(ZeroBuffer)

----------------------------------------------------------------------------
(* Spec: drawing and flushing over a bus whose transactions may fail *)

\* a one-byte-wide bitmap of two rows: 1010 0000, 0100 0000
Bitmap2 == [k \in 0 .. 1 |-> IF k = 0 THEN 160 ELSE 64]

DrawPixel ==
    /\ CanCall(MaxOps)
    /\ \E x \in {-1, 0, ScreenWidth - 1}, y \in {0, ScreenHeight - 1} :
            Draw(ssd1306_draw_pixel(Dev, x, y, OLED_COLOR_WHITE),
                 "draw_pixel", <<x, y, OLED_COLOR_WHITE>>)

DrawBitmap ==
    /\ CanCall(MaxOps)
    /\ \E a \in {<<ScreenWidth - 1, 0, -1, 1>>, <<2, 0, 0, 1>>, <<0, 7, 2, 2>>} :
            Draw(ssd1306_draw_bitmap(Dev, a[1], a[2], Bitmap2, a[3], a[4], OLED_COLOR_WHITE),
                 "draw_bitmap", a)

FillBuffer ==
    /\ CanCall(MaxOps)
    /\ \E color \in {OLED_COLOR_BLACK, OLED_COLOR_WHITE} :
            Draw(ssd1306_fill_buffer(Dev, color), "fill_buffer", <<color>>)

\* how the data stage can go: no link, link and a failed transfer, link and a
\* transfer that succeeds
DataStages == {<<FALSE, FALSE>>, <<TRUE, FALSE>>, <<TRUE, TRUE>>}

\* what a read outside the framebuffer can deliver; the payload is read outside
\* the framebuffer only when len wraps, that is when min_col > max_col
JunkBytes == IF min_col > max_col THEN {0, 255} ELSE {0}

UpdateScreen ==
    /\ CanCall(MaxOps)
    /\ \E outs \in Outcomes, stage \in DataStages, junk \in JunkBytes :
         LET u == ssd1306_update_screen(Dev, ram, win,
                     [outs |-> outs, link |-> stage[1], data |-> stage[2], junk |-> junk])
         IN Commit(u.d, "update_screen", <<>>, u.ret, u.bus, u.ram, u.win)

Next == DrawPixel \/ DrawBitmap \/ FillBuffer \/ UpdateScreen

Spec == Init /\ [][Next]_vars

----------------------------------------------------------------------------
(* Claims about the flush protocol, under Spec *)

LastIs(op) == hist # <<>> /\ hist[1].op = op
CleanTracker == Tracker(Created(buffer))
DrawingOps == {"draw_pixel", "draw_bitmap", "draw_bitmap_bg", "fill_buffer",
               "draw_fast_hline", "draw_fast_vline", "draw_rect", "fill_rect", "draw_line"}

\* C1: a flush of a DIRTY instance leaves the tracker CLEAN only when the window
\* command and the data transaction both succeeded; when either fails the
\* failure is returned and the tracker is exactly as it was before the call.
C1_FailedFlushKeepsTracker ==
    (LastIs("update_screen") /\ hist[1].dirty) =>
        /\ (Tracker(Dev) = CleanTracker) =>
               (Len(bus) = 2 /\ bus[1].ok /\ bus[2].ok)
        /\ (\E k \in DOMAIN bus : ~bus[k].ok) =>
               (hist[1].ret # "ESP_OK" /\ Tracker(Dev) = pre)

\* C2 as stated: a flush of a CLEAN instance returns success without any bus
\* transaction, and after any drawing call (one that left the instance DIRTY)
\* two flushes in a row issue exactly one data transaction together, the
\* second none.
C2_TwoFlushesAfterAnyDrawing ==
    /\ (LastIs("update_screen") /\ ~hist[1].dirty) =>
           (hist[1].ret = "ESP_OK" /\ bus = <<>>)
    /\ (Len(hist) = 2 /\ hist[1].op = "update_screen" /\ hist[2].op = "update_screen"
            /\ hist[2].prev \in DrawingOps /\ hist[2].dirty) =>
           (hist[1].ndata + hist[2].ndata = 1 /\ hist[1].ndata = 0)

\* C2 amended: a flush of a CLEAN instance returns success without any bus
\* transaction, and when a drawing call left the instance DIRTY and the first of
\* two flushes in a row returns success, the two issue exactly one data
\* transaction together and the second issues no transaction at all.
C2_TwoFlushesFirstSucceeds ==
    /\ (LastIs("update_screen") /\ ~hist[1].dirty) =>
           (hist[1].ret = "ESP_OK" /\ bus = <<>>)
    /\ (Len(hist) = 2 /\ hist[1].op = "update_screen" /\ hist[2].op = "update_screen"
            /\ hist[2].prev \in DrawingOps /\ hist[2].dirty /\ hist[2].ret = "ESP_OK") =>
           (hist[1].ndata + hist[2].ndata = 1 /\ hist[1].ndata = 0 /\ bus = <<>>)

\* C2 witness: the second of two flushes after a drawing call, the first having
\* flushed a DIRTY instance successfully
C2_Witness ==
    /\ Len(hist) = 2 /\ hist[1].op = "update_screen" /\ hist[2].op = "update_screen"
    /\ hist[2].prev \in DrawingOps /\ hist[2].dirty /\ hist[2].ret = "ESP_OK"
    /\ hist[2].ndata = 1

RECURSIVE WindowBytes(_, _, _)
\* the framebuffer bytes p*width+min_col .. p*width+max_col for p = page .. max_page
WindowBytes(b, t, page) ==
    IF page > t.max_page THEN <<>>
    ELSE [k \in 1 .. Max2(t.max_col - t.min_col + 1, 0) |->
              b[page * ScreenWidth + t.min_col + k - 1]]
         \o WindowBytes(b, t, page + 1)

\* C3: a flush of a DIRTY instance sends one command transaction (control byte
\* 0x00) with 0x21,min_col,max_col,0x22,min_page,max_page and, only when it
\* succeeded, one data transaction (control byte 0x40) whose payload is the
\* window's framebuffer bytes page by page, (max_page-min_page+1) *
\* (max_col-min_col+1) of them; a failed command is followed by no data.
C3_FlushSendsWindowThenPayload ==
    (LastIs("update_screen") /\ hist[1].dirty /\ hist[1].ret # "ESP_ERR_NO_MEM") =>
        /\ Len(bus) >= 1
        /\ bus[1].ctl = OLED_CONTROL_BYTE_CMD_STREAM
        /\ bus[1].bytes = <<OLED_CMD_SET_COLUMN_RANGE, pre.min_col, pre.max_col,
                           OLED_CMD_SET_PAGE_RANGE, pre.min_page, pre.max_page>>
        /\ ~bus[1].ok => Len(bus) = 1
        /\ bus[1].ok =>
              /\ Len(bus) = 2
              /\ bus[2].ctl = OLED_CONTROL_BYTE_DATA_STREAM
              /\ ~bus[2].oobread
              /\ bus[2].bytes = WindowBytes(buffer, pre, pre.min_page)
              /\ bus[2].len = (pre.max_page - pre.min_page + 1) * (pre.max_col - pre.min_col + 1)

\* C4: a command transaction is attempted at most 3 times, stops at the first
\* attempt that succeeds and then returns success, and returns failure exactly
\* when three attempts were made and all three failed.
C4_CommandRetriedAtMostThrice ==
    \A k \in DOMAIN bus :
        bus[k].ctl = OLED_CONTROL_BYTE_CMD_STREAM =>
            LET res == bus[k].results
            IN /\ Len(res) >= 1 /\ Len(res) <= 3
               /\ \A j \in 1 .. Len(res) - 1 : ~res[j]
               /\ bus[k].ok <=> res[Len(res)]
               /\ ~bus[k].ok <=> (Len(res) = 3 /\ \A j \in 1 .. 3 : ~res[j])
               /\ (k = Len(bus) /\ ~bus[k].ok) => hist[1].ret = "ESP_FAIL"

\* C4 witness: a command transaction that failed twice and succeeded on the
\* third attempt
C4_Witness ==
    \E k \in DOMAIN bus :
        /\ bus[k].ctl = OLED_CONTROL_BYTE_CMD_STREAM
        /\ bus[k].results = <<FALSE, FALSE, TRUE>>
        /\ bus[k].ok

\* C7: every framebuffer byte that differs from the panel RAM lies inside the
\* tracked rectangle of a DIRTY tracker, and right after a flush that returned
\* success the panel RAM equals the framebuffer.
C7_RamDiffersOnlyInsideDirtyWindow ==
    /\ \A i \in BufIdx :
          buffer[i] # ram[i] =>
              /\ needs_update
              /\ min_col <= i % ScreenWidth /\ i % ScreenWidth <= max_col
              /\ min_page <= i \div ScreenWidth /\ i \div ScreenWidth <= max_page
    /\ (LastIs("update_screen") /\ hist[1].ret = "ESP_OK") => ram = buffer

----------------------------------------------------------------------------
(* SpecDraw: the drawing primitives with on-screen, clipped and off-screen
   arguments *)

DrawPixelD ==
    /\ CanCall(DrawOps)
    /\ \E x \in {-1, ScreenWidth - 1}, y \in {0, ScreenHeight} :
            Draw(ssd1306_draw_pixel(Dev, x, y, OLED_COLOR_WHITE),
                 "draw_pixel", <<x, y, OLED_COLOR_WHITE>>)

DrawFastHLine ==
    /\ CanCall(DrawOps)
    /\ \E x \in {-3, -1, 1}, y \in {0, 9}, w \in {-1, 1, ScreenWidth + 1} :
            Draw(ssd1306_draw_fast_hline(Dev, x, y, w, OLED_COLOR_WHITE),
                 "draw_fast_hline", <<x, y, w, OLED_COLOR_WHITE>>)

DrawFastVLine ==
    /\ CanCall(DrawOps)
    /\ \E x \in {0, ScreenWidth - 1}, y \in {-2, 6}, h \in {-1, 3, ScreenHeight + 1} :
            Draw(ssd1306_draw_fast_vline(Dev, x, y, h, OLED_COLOR_WHITE),
                 "draw_fast_vline", <<x, y, h, OLED_COLOR_WHITE>>)

DrawRect ==
    /\ CanCall(DrawOps)
    /\ \E a \in {<<0, 0, ScreenWidth, ScreenHeight>>, <<1, 6, 2, 3>>, <<-1, -1, 3, 3>>} :
            Draw(ssd1306_draw_rect(Dev, a[1], a[2], a[3], a[4], OLED_COLOR_WHITE),
                 "draw_rect", a)

FillRect ==
    /\ CanCall(DrawOps)
    /\ \E a \in {<<0, 0, ScreenWidth, ScreenHeight>>, <<1, 7, 2, 2>>, <<-1, -1, 1, 1>>,
                 <<1, 1, 0, -1>>} :
            Draw(ssd1306_fill_rect(Dev, a[1], a[2], a[3], a[4], OLED_COLOR_INVERT),
                 "fill_rect", a)

DrawLine ==
    /\ CanCall(DrawOps)
    /\ \E a \in {<<0, 0, ScreenWidth - 1, ScreenHeight - 1>>, <<ScreenWidth - 1, 0, 0, 3>>,
                 <<-1, 2, 1, 2>>, <<1, -1, 1, 2>>} :
            Draw(ssd1306_draw_line(Dev, a[1], a[2], a[3], a[4], OLED_COLOR_WHITE),
                 "draw_line", a)

DrawBitmapBg ==
    /\ CanCall(DrawOps)
    /\ \E a \in {<<ScreenWidth - 1, 0, -1, 1>>, <<2, 0, 0, 1>>, <<0, 7, 2, 2>>,
                 <<-1, -1, 2, 2>>},
          bg_color \in {OLED_COLOR_BLACK, OLED_COLOR_WHITE} :
            Draw(ssd1306_draw_bitmap_bg(Dev, a[1], a[2], Bitmap2, a[3], a[4],
                                        OLED_COLOR_WHITE, bg_color),
                 "draw_bitmap_bg", a \o <<bg_color>>)

FillBufferD ==
    /\ CanCall(DrawOps)
    /\ \E color \in {OLED_COLOR_BLACK, OLED_COLOR_WHITE} :
            Draw(ssd1306_fill_buffer(Dev, color), "fill_buffer", <<color>>)

NextDraw ==
    \/ DrawPixelD
    \/ DrawFastHLine
    \/ DrawFastVLine
    \/ DrawRect
    \/ FillRect
    \/ DrawLine
    \/ DrawBitmapBg
    \/ FillBufferD

SpecDraw == Init /\ [][NextDraw]_vars

----------------------------------------------------------------------------
(* Claims about the tracker and the stores of the drawing primitives *)

\* C5: in every state reached by drawing calls and flushes, needs_update holds
\* exactly when min_col <= max_col and min_page <= max_page, and then the
\* window lies on the screen: 0 <= min_col <= max_col < width and
\* 0 <= min_page <= max_page < height / 8.
C5_NeedsUpdateIffWindowWellFormed ==
    /\ needs_update <=> (min_col <= max_col /\ min_page <= max_page)
    /\ needs_update =>
          /\ 0 <= min_col /\ min_col <= max_col /\ max_col < ScreenWidth
          /\ 0 <= min_page /\ min_page <= max_page /\ max_page < ScreenPages

SetMin(S) == CHOOSE m \in S : \A n \in S : m <= n
SetMax(S) == CHOOSE m \in S : \A n \in S : m >= n

\* C6: the tracked rectangle is the bounding box, in columns and pages, of the
\* rectangles marked since the last reset, each clipped to the screen; marks
\* whose clipped rectangle is empty leave the tracker as the reset left it.
C6_TrackerIsBoundingBoxOfMarks ==
    IF marked = {}
    THEN Tracker(Dev) = CleanTracker
    ELSE /\ needs_update
         /\ min_col = SetMin({c[1] : c \in marked})
         /\ max_col = SetMax({c[1] : c \in marked})
         /\ min_page = SetMin({c[2] : c \in marked})
         /\ max_page = SetMax({c[2] : c \in marked})

\* C8: no drawing call stores to a byte outside the framebuffer, whatever its
\* coordinates and sizes.
C8_StoresStayInsideFramebuffer == ~oob

\* C9: after a drawing call returns, every framebuffer bit it stored to lies in
\* the tracked rectangle (column within min_col..max_col, page within
\* min_page..max_page) and needs_update is set.
C9_WrittenPixelsAreTracked ==
    (hist # <<>> /\ hist[1].op \in DrawingOps /\ ~hang) =>
        \A wb \in wrote :
            /\ needs_update
            /\ min_col <= wb[1] % ScreenWidth /\ wb[1] % ScreenWidth <= max_col
            /\ min_page <= wb[1] \div ScreenWidth /\ wb[1] \div ScreenWidth <= max_page

----------------------------------------------------------------------------
(* SpecPixel: pairs of ssd1306_draw_pixel calls on framebuffers with the
   pixel's bit clear and set *)

\* framebuffers that drawing followed by a successful flush leaves behind
PixelBuffers ==
    { ZeroBuffer, [i \in BufIdx |-> 255], [i \in BufIdx |-> IF i % 2 = 0 THEN 165 ELSE 90] }

InitPixel == \E b \in PixelBuffers : InitWith(b)

SetPixel ==
    /\ CanCall(PixelOps)
    /\ \E x \in {0, ScreenWidth - 1, ScreenWidth}, y \in {-1, 0, ScreenHeight - 1},
          color \in Colors :
            Draw(ssd1306_draw_pixel(Dev, x, y, color), "draw_pixel", <<x, y, color>>)

SpecPixel == InitPixel /\ [][SetPixel]_vars

\* the last two calls were draw_pixel(x, y, c1) then draw_pixel(x, y, c2) at the
\* same on-screen pixel
PixelPair(c1, c2) ==
    /\ Len(hist) = 2
    /\ hist[1].op = "draw_pixel" /\ hist[2].op = "draw_pixel"
    /\ hist[2].args[3] = c1 /\ hist[1].args[3] = c2
    /\ hist[1].args[1] = hist[2].args[1] /\ hist[1].args[2] = hist[2].args[2]
    /\ hist[1].args[1] \in 0 .. ScreenWidth - 1
    /\ hist[1].args[2] \in 0 .. ScreenHeight - 1

PairIndex == hist[1].args[1] + (hist[1].args[2] \div 8) * ScreenWidth
PairBit == hist[1].args[2] % 8

\* C10 as stated: drawing an on-screen pixel ON and then OFF, or INVERT twice,
\* leaves the framebuffer as it was before the two calls.
C10_OnOffAndInvertTwiceRestore ==
    (PixelPair(OLED_COLOR_WHITE, OLED_COLOR_BLACK)
        \/ PixelPair(OLED_COLOR_INVERT, OLED_COLOR_INVERT)) => buffer = bufs[2]

\* C10 amended: ON then OFF leaves the pixel's bit clear and every other bit as
\* it was, so the framebuffer is restored exactly when the bit was clear
\* before; INVERT twice leaves the framebuffer as it was.
C10_OnOffClearsInvertTwiceRestores ==
    /\ PixelPair(OLED_COLOR_WHITE, OLED_COLOR_BLACK) =>
          /\ buffer = [bufs[2] EXCEPT ![PairIndex] = ClearBit(@, PairBit)]
          /\ (buffer = bufs[2]) <=> (BitOf(bufs[2][PairIndex], PairBit) = 0)
    /\ PixelPair(OLED_COLOR_INVERT, OLED_COLOR_INVERT) => buffer = bufs[2]

C10_Witness ==
    /\ PixelPair(OLED_COLOR_WHITE, OLED_COLOR_BLACK)
    /\ BitOf(bufs[2][PairIndex], PairBit) = 1
    /\ buffer # bufs[2]

\* the last call was draw_pixel at a pixel on the screen
PixelOnScreen ==
    /\ LastIs("draw_pixel")
    /\ hist[1].args[1] \in 0 .. ScreenWidth - 1
    /\ hist[1].args[2] \in 0 .. ScreenHeight - 1

\* C11: draw_pixel off the screen changes neither the framebuffer nor the
\* tracker; on the screen it changes at most bit y & 7 of byte
\* x + (y >> 3) * width (BLACK clears it, WHITE sets it, INVERT flips it), no
\* other bit, and extends the tracker by exactly column x, page y >> 3.
C11_PixelFrame ==
    LastIs("draw_pixel") =>
        LET x == hist[1].args[1]
            y == hist[1].args[2]
            color == hist[1].args[3]
            index == x + (y \div 8) * ScreenWidth
            old == bufs[1][index]
            new == CASE color = OLED_COLOR_BLACK -> ClearBit(old, y % 8)
                     [] color = OLED_COLOR_WHITE -> OrBit(old, y % 8)
                     [] color = OLED_COLOR_INVERT -> XorBit(old, y % 8)
        IN IF ~PixelOnScreen
           THEN buffer = bufs[1] /\ Tracker(Dev) = pre
           ELSE /\ buffer = [bufs[1] EXCEPT ![index] = new]
                /\ needs_update
                /\ min_col = Min2(pre.min_col, x) /\ max_col = Max2(pre.max_col, x)
                /\ min_page = Min2(pre.min_page, y \div 8)
                /\ max_page = Max2(pre.max_page, y \div 8)

C11_Witness ==
    /\ PixelOnScreen
    /\ hist[1].args[3] = OLED_COLOR_INVERT
    /\ buffer # bufs[1]
    /\ pre.needs_update /\ Tracker(Dev) # pre

----------------------------------------------------------------------------
(* SpecScene: whole-buffer fills, rectangles strictly inside the screen, and
   flushes *)

\* rectangles (x, y, w, h) that touch neither the first nor the last column and
\* not the first page
InsideRects == {<<1, 10, 2, 3>>, <<1, 9, ScreenWidth - 2, 2>>}

FillRectInside ==
    /\ CanCall(MaxOps)
    /\ \E a \in InsideRects :
            Draw(ssd1306_fill_rect(Dev, a[1], a[2], a[3], a[4], OLED_COLOR_WHITE),
                 "fill_rect", a)

FillBufferInvert ==
    /\ CanCall(MaxOps)
    /\ Draw(ssd1306_fill_buffer(Dev, OLED_COLOR_INVERT), "fill_buffer", <<OLED_COLOR_INVERT>>)

NextScene == FillBuffer \/ FillBufferInvert \/ FillRectInside \/ UpdateScreen

SpecScene == Init /\ [][NextScene]_vars

\* the last three calls were fill_buffer, fill_rect, update_screen
FillRectFlush ==
    /\ Len(hist) = 2
    /\ hist[1].op = "update_screen" /\ hist[2].op = "fill_rect"
    /\ hist[2].prev = "fill_buffer"

\* the window command for columns c0..c1, pages p0..p1
WindowCmd(c0, c1, p0, p1) ==
    <<OLED_CMD_SET_COLUMN_RANGE, c0, c1, OLED_CMD_SET_PAGE_RANGE, p0, p1>>

\* the window command for the rectangle of the fill_rect call hist[2]
RectWindowCmd ==
    LET a == hist[2].args
    IN WindowCmd(a[1], a[1] + a[3] - 1, a[2] \div 8, (a[2] + a[4] - 1) \div 8)

\* C12 as stated (the 128x64 scenario fill(OFF); fill_rect(10,10,45,35,ON);
\* flush, on the model's panel with a rectangle strictly inside the screen):
\* the successful flush issues exactly one data transaction and the window it
\* sends is the rectangle's columns and pages.
C12_FlushAfterFillAndRectSendsRect ==
    (FillRectFlush /\ hist[1].ret = "ESP_OK") =>
        (hist[1].ndata = 1 /\ bus[1].bytes = RectWindowCmd)

\* C12 amended: after fill; fill_rect; flush the successful flush issues exactly
\* one data transaction and its window is the whole panel, because the fill
\* marked every column and page; the window is the rectangle's columns and
\* pages when the tracker was CLEAN before the fill_rect.
C12_FlushAfterFillAndRectSendsFullPanel ==
    /\ (FillRectFlush /\ hist[1].ret = "ESP_OK") =>
          /\ hist[1].ndata = 1
          /\ bus[1].bytes = WindowCmd(0, ScreenWidth - 1, 0, ScreenPages - 1)
    /\ (Len(hist) = 2 /\ hist[1].op = "update_screen" /\ hist[2].op = "fill_rect"
           /\ ~hist[2].dirty /\ hist[1].ret = "ESP_OK") =>
          /\ hist[1].ndata = 1
          /\ bus[1].bytes = RectWindowCmd

C12_Witness ==
    /\ FillRectFlush /\ hist[1].ret = "ESP_OK"
    /\ hist[1].ndata = 1
    /\ bus[1].bytes # RectWindowCmd

----------------------------------------------------------------------------
(* SpecLine: axis-aligned ssd1306_draw_line calls with both end points on the
   screen *)

\* end point pairs <<a, b>> with 0 <= a <= b <= last
EndPoints(mid, last) == {<<0, last>>, <<mid, mid>>, <<mid, last>>, <<0, mid>>}

DrawHorizontalLine ==
    /\ CanCall(LineOps)
    /\ \E e \in EndPoints(1, ScreenWidth - 1), y \in {0, ScreenHeight - 1}, color \in Colors :
            Draw(ssd1306_draw_line(Dev, e[1], y, e[2], y, color),
                 "draw_line", <<e[1], y, e[2], y, color>>)

DrawVerticalLine ==
    /\ CanCall(LineOps)
    /\ \E e \in EndPoints(8, ScreenHeight - 1), x \in {0, ScreenWidth - 1},
          color \in {OLED_COLOR_WHITE, OLED_COLOR_INVERT} :
            Draw(ssd1306_draw_line(Dev, x, e[1], x, e[2], color),
                 "draw_line", <<x, e[1], x, e[2], color>>)

NextLine == DrawHorizontalLine \/ DrawVerticalLine

\* a framebuffer in which every bit position is set in some bytes and clear in others
MixedBuffer == [i \in BufIdx |-> IF i % 2 = 0 THEN 165 ELSE 90]

InitLine == InitWith(MixedBuffer)

SpecLine == InitLine /\ [][NextLine]_vars

\* the handle as it was when the last call began
DevBefore ==
    [buffer |-> bufs[1], needs_update |-> pre.needs_update, min_col |-> pre.min_col,
     max_col |-> pre.max_col, min_page |-> pre.min_page, max_page |-> pre.max_page,
     wrote |-> {}, oob |-> FALSE, hang |-> FALSE, marked |-> {}]

RECURSIVE PixelRun(_, _, _, _, _, _, _)
\* ssd1306_draw_pixel at (x, y), (x + sx, y + sy), ... for n pixels
PixelRun(d, x, y, sx, sy, n, color) ==
    IF n = 0 \/ d.oob THEN d
    ELSE PixelRun(ssd1306_draw_pixel(d, x, y, color), x + sx, y + sy, sx, sy, n - 1, color)

\* C13: draw_line along a row (0 <= x0 <= x1 < width) or a column
\* (0 <= y0 <= y1 < height) leaves the framebuffer and the tracker as the
\* x1 - x0 + 1 (y1 - y0 + 1) draw_pixel calls along it do, for every color.
C13_AxisLineEqualsPixels ==
    LastIs("draw_line") =>
        LET a == hist[1].args
            n == IF a[2] = a[4] THEN a[3] - a[1] + 1 ELSE a[4] - a[2] + 1
            px == PixelRun(DevBefore, a[1], a[2], IF a[2] = a[4] THEN 1 ELSE 0,
                           IF a[2] = a[4] THEN 0 ELSE 1, n, a[5])
        IN (a[1] = a[3] \/ a[2] = a[4]) =>
              /\ buffer = px.buffer
              /\ Tracker(Dev) = Tracker(px)
              /\ ~oob /\ ~hang

C13_Witness ==
    /\ LastIs("draw_line")
    /\ hist[1].args[2] = hist[1].args[4] /\ hist[1].args[1] < hist[1].args[3]
    /\ hist[1].args[5] = OLED_COLOR_INVERT
    /\ buffer # bufs[1]
    /\ pre.needs_update /\ Tracker(Dev) # pre

----------------------------------------------------------------------------
(* SpecShift: ssd1306_shift_framebuffer with and without wrap *)

\* one pixel on, at (1, 1)
OnePixelBuffer == [i \in BufIdx |-> IF i = 1 THEN 2 ELSE 0]

InitShift == \E b \in {MixedBuffer, OnePixelBuffer} : InitWith(b)

ShiftWrap ==
    /\ CanCall(ShiftOps)
    /\ \E dx \in {-32767, -1, 0, 1, 32767}, dy \in {-32767, -9, 0, 9, 32767} :
            Draw(ssd1306_shift_framebuffer(Dev, dx, dy, TRUE),
                 "shift_framebuffer", <<dx, dy, TRUE>>)

ShiftNoWrap ==
    /\ CanCall(ShiftOps)
    /\ \E dx \in {-32768, -32767, -ScreenWidth, -1, 1, ScreenWidth, 32767}, dy \in {0, 1} :
            Draw(ssd1306_shift_framebuffer(Dev, dx, dy, FALSE),
                 "shift_framebuffer", <<dx, dy, FALSE>>)

NextShift == ShiftWrap \/ ShiftNoWrap

SpecShift == InitShift /\ [][NextShift]_vars

\* C14: shift(dx, dy, wrap) followed by shift(-dx, -dy, wrap) leaves the
\* framebuffer as it was before the two calls, for any dx, dy and any pattern.
C14_WrapShiftRoundTrip ==
    (/\ Len(hist) = 2
     /\ hist[1].op = "shift_framebuffer" /\ hist[2].op = "shift_framebuffer"
     /\ hist[2].args[3] /\ hist[1].args[3]
     /\ hist[1].args[1] = -hist[2].args[1]
     /\ hist[1].args[2] = -hist[2].args[2]) => buffer = bufs[2]

\* C15: shift(dx, 0, wrap = false) with |dx| >= width leaves every framebuffer
\* byte 0, writes nothing outside the framebuffer, and marks the whole panel.
C15_WideShiftClears ==
    (/\ LastIs("shift_framebuffer")
     /\ ~hist[1].args[3] /\ hist[1].args[2] = 0
     /\ Abs(hist[1].args[1]) >= ScreenWidth) =>
        /\ ~oob
        /\ buffer = ZeroBuffer
        /\ needs_update
        /\ min_col = 0 /\ max_col = ScreenWidth - 1
        /\ min_page = 0 /\ max_page = ScreenPages - 1

\* C16: fill(color) leaves every framebuffer byte 0x00 for BLACK and 0xFF for
\* WHITE and marks the whole panel; fill(INVERT) is rejected or treated as
\* BLACK, so it turns no pixel on.
C16_FillSetsEveryByte ==
    LastIs("fill_buffer") =>
        LET color == hist[1].args[1]
        IN /\ color = OLED_COLOR_BLACK => buffer = ZeroBuffer
           /\ color = OLED_COLOR_WHITE => buffer = [i \in BufIdx |-> 255]
           /\ color = OLED_COLOR_INVERT =>
                 \A i \in BufIdx, k \in 0 .. 7 : BitOf(buffer[i], k) = 1 => BitOf(bufs[1][i], k) = 1
           /\ color \in {OLED_COLOR_BLACK, OLED_COLOR_WHITE} =>
                 /\ needs_update
                 /\ min_col = 0 /\ max_col = ScreenWidth - 1
                 /\ min_page = 0 /\ max_page = ScreenPages - 1

----------------------------------------------------------------------------
(* SpecLife: ssd1306_create and ssd1306_delete over a bus whose transactions
   may fail and a heap whose allocations may fail *)

LifeOps == 4

OLED_CMD_SET_CONTRAST == 129
OLED_CMD_DISPLAY_RAM == 164
OLED_CMD_DISPLAY_NORMAL == 166
OLED_CMD_DISPLAY_OFF == 174
OLED_CMD_DISPLAY_ON == 175
OLED_CMD_SET_MEMORY_ADDR_MODE == 32
OLED_CMD_SET_DISPLAY_START_LINE == 64
OLED_CMD_SET_SEGMENT_REMAP == 160
OLED_CMD_SET_MUX_RATIO == 168
OLED_CMD_SET_COM_SCAN_MODE == 192
OLED_CMD_SET_DISPLAY_OFFSET == 211
OLED_CMD_SET_DISPLAY_CLK_DIV == 213
OLED_CMD_SET_PRECHARGE == 217
OLED_CMD_SET_COM_PIN_MAP == 218
OLED_CMD_SET_VCOMH_DESELCT == 219
OLED_CMD_SET_CHARGE_PUMP == 141
OLED_CMD_DEACTIVATE_SCROLL == 46

\* const uint8_t init_cmds[] of ssd1306_create; a | b with disjoint bits is a + b
init_cmds ==
    <<OLED_CMD_DISPLAY_OFF,
      OLED_CMD_SET_DISPLAY_CLK_DIV, 128,
      OLED_CMD_SET_MUX_RATIO, ToU8(ScreenHeight - 1),
      OLED_CMD_SET_DISPLAY_OFFSET, 0,
      OLED_CMD_SET_DISPLAY_START_LINE + 0,
      OLED_CMD_SET_CHARGE_PUMP, 20,
      OLED_CMD_SET_MEMORY_ADDR_MODE, 0,
      OLED_CMD_SET_SEGMENT_REMAP + 1,
      OLED_CMD_SET_COM_SCAN_MODE + 8,
      OLED_CMD_SET_COM_PIN_MAP, IF ScreenHeight = 64 THEN 18 ELSE 2,
      OLED_CMD_SET_CONTRAST, 207,
      OLED_CMD_SET_PRECHARGE, 241,
      OLED_CMD_SET_VCOMH_DESELCT, 64,
      OLED_CMD_DISPLAY_RAM,
      OLED_CMD_DISPLAY_NORMAL,
      OLED_CMD_DEACTIVATE_SCROLL,
      OLED_CMD_DISPLAY_ON>>

\* the handle structure calloc returns, with the framebuffer malloc returns
\* (malloc does not clear: every byte is junk)
FreshHandle(junk) ==
    [buffer |-> [i \in BufIdx |-> junk], needs_update |-> FALSE, min_col |-> 0,
     max_col |-> 0, min_page |-> 0, max_page |-> 0, wrote |-> {}, oob |-> FALSE,
     hang |-> FALSE, marked |-> {}]

\* the graphics state of a handle structure fresh from calloc
ZeroText ==
    [cursor_x |-> 0, cursor_y |-> 0, textsize_x |-> 0, textsize_y |-> 0,
     textcolor |-> 0, textbgcolor |-> 0, wrap |-> FALSE, gfxFont |-> "NULL",
     moved |-> FALSE]

NoInstance == [handle |-> 0, buffer |-> 0, driver |-> 0, double_free |-> FALSE,
               released |-> 0]

\* ssd1306_create(config, out_handle).  a: which arguments are null; h: what
\* *out_handle holds; hd: what is held; cur, t, r, w: the instance the caller's
\* handle designates, its graphics state, and the panel, before the call.
\* env: calloc, malloc, param_config (each succeeds or not), install
\* (i2c_driver_install succeeds; it cannot while the port has a driver), outs
\* (attempts of the bring-up commands), io (of the initial flush), junk (the
\* content of fresh malloc memory)
ssd1306_create(a, h, hd, cur, t, r, w, env) ==
    LET same == [ret |-> "ESP_OK", out_handle |-> h, held |-> hd, d |-> cur,
                 text |-> t, bus |-> <<>>, ram |-> r, win |-> w, fault |-> "none"]
        hd2 == [hd EXCEPT !.handle = @ + 1, !.buffer = @ + 1]
        hd3 == [hd2 EXCEPT !.driver = @ + 1]
    IN IF ~(a = "ok" /\ h = "NULL")
       THEN [same EXCEPT !.ret = "ESP_ERR_INVALID_ARG"]
       ELSE IF ~env.calloc
       THEN [same EXCEPT !.ret = "ESP_ERR_NO_MEM"]
       ELSE IF ~env.malloc
       THEN [same EXCEPT !.ret = "ESP_ERR_NO_MEM"]
       ELSE IF ~env.param_config \/ ~env.install \/ hd.driver > 0
       THEN [same EXCEPT !.ret = "none", !.held = hd2, !.fault = "abort"]
       ELSE LET c == ssd1306_send_cmd_list(init_cmds, env.outs)
                w1 == IF c.tx.ok THEN PanelCmd(w, init_cmds) ELSE w
            IN IF c.ret # "ESP_OK"
               THEN [same EXCEPT !.ret = c.ret, !.held = hd3, !.bus = <<c.tx>>,
                                 !.win = w1]
               ELSE LET d0 == ssd1306_clear_buffer(
                                  ssd1306_reset_dirty_area(FreshHandle(env.junk)))
                        u == ssd1306_update_screen(d0, r, w1, env.io)
                    IN IF u.ret # "ESP_OK"
                       THEN [same EXCEPT !.ret = u.ret, !.held = hd3,
                                         !.bus = <<c.tx>> \o u.bus,
                                         !.ram = u.ram, !.win = u.win]
                       ELSE [ret |-> "ESP_OK", out_handle |-> "live", held |-> hd3,
                             d |-> u.d, text |-> DefaultText,
                             bus |-> <<c.tx>> \o u.bus, ram |-> u.ram,
                             win |-> u.win, fault |-> "none"]

\* a delete that leaves the caller's handle as it was
DeleteKeepsPointer(ptr, h, hd) ==
    IF ~(ptr = "valid" /\ h # "NULL")
    THEN [ret |-> "ESP_ERR_INVALID_ARG", out_handle |-> h, held |-> hd]
    ELSE [ret |-> "ESP_OK", out_handle |-> h,
          held |-> [handle |-> Max2(hd.handle - 1, 0),
                    buffer |-> Max2(hd.buffer - 1, 0),
                    driver |-> Max2(hd.driver - 1, 0),
                    double_free |-> hd.double_free \/ hd.buffer = 0 \/ hd.handle = 0,
                    released |-> hd.released + 1]]

\* ssd1306_delete(handle_ptr).  ptr: handle_ptr is "null" or "valid"; h: what
\* *handle_ptr holds; hd: what is held (released counts the deletes that went
\* through).  free of memory that is no longer held is a double free
ssd1306_delete(ptr, h, hd) ==
    IF ~(ptr = "valid" /\ h # "NULL")
    THEN [ret |-> "ESP_ERR_INVALID_ARG", out_handle |-> h, held |-> hd]
    ELSE [ret |-> "ESP_OK", out_handle |-> "NULL",
          held |-> [handle |-> Max2(hd.handle - 1, 0),
                    buffer |-> Max2(hd.buffer - 1, 0),
                    driver |-> Max2(hd.driver - 1, 0),
                    double_free |-> hd.double_free \/ hd.buffer = 0 \/ hd.handle = 0,
                    released |-> hd.released + 1]]

\* the k-th attempt of a command transaction succeeds after n failed ones
FailFirst(n) == [k \in 1 .. MaxAttempts |-> k > n]

\* the ways a command transaction can go, as far as the retry loop tells them
\* apart: success after 0, 1 or 2 failed attempts, or three failed attempts
RetryCases == {FailFirst(n) : n \in 0 .. CmdRetries}

\* the steps of ssd1306_create that can fail before the first bus transaction
CreateStages == {"calloc", "malloc", "param_config", "install", "run"}

CreateArgs == {"ok", "config_null", "out_null"}

\* no instance yet: the panel has just been powered, its RAM holds junk
InitLife ==
    /\ \E junk \in {0, 255} : ram = [i \in BufIdx |-> junk]
    /\ buffer = ZeroBuffer
    /\ needs_update = FALSE
    /\ min_col = 0 /\ max_col = 0 /\ min_page = 0 /\ max_page = 0
    /\ marked = {} /\ wrote = {} /\ oob = FALSE /\ hang = FALSE
    /\ win = FullWindow
    /\ bus = <<>> /\ hist = <<>> /\ bufs = <<>> /\ steps = 0
    /\ pre = Tracker(FreshHandle(0))
    /\ out_handle = "NULL"
    /\ held = NoInstance
    /\ text = ZeroText
    /\ fault = "none"

\* the inputs of one ssd1306_create call; an input the call does not get to
\* read on its path is fixed to its first value
CreateInputs ==
    {e \in [a : CreateArgs, stage : CreateStages, outs : RetryCases,
            outs2 : RetryCases, ds : DataStages, junk : {0, 255}] :
        LET early == e.a # "ok" \/ e.stage # "run"
            sent == ~early /\ e.outs # FailFirst(CmdRetries)
        IN /\ e.a # "ok" => e.stage = "run"
           /\ early => e.outs = FailFirst(0)
           /\ ~sent => (e.outs2 = FailFirst(0) /\ e.junk = 0)
           /\ (~sent \/ e.outs2 = FailFirst(CmdRetries)) => e.ds = <<TRUE, TRUE>>}

Create ==
    /\ CanCall(LifeOps)
    /\ \E e \in CreateInputs :
         LET c == ssd1306_create(e.a, out_handle, held, Dev, text, ram, win,
                     [calloc |-> e.stage # "calloc", malloc |-> e.stage # "malloc",
                      param_config |-> e.stage # "param_config",
                      install |-> e.stage # "install", outs |-> e.outs,
                      junk |-> e.junk,
                      io |-> [outs |-> e.outs2, link |-> e.ds[1], data |-> e.ds[2],
                              junk |-> 0]])
         IN /\ CommitCore(c.d, "create", <<e.a, out_handle, held>>, c.ret, c.bus,
                          c.ram, c.win)
            /\ out_handle' = c.out_handle
            /\ held' = c.held
            /\ text' = c.text
            /\ fault' = c.fault

Delete ==
    /\ CanCall(LifeOps)
    /\ \E ptr \in {"null", "valid"} :
         LET r == ssd1306_delete(ptr, out_handle, held)
         IN /\ CommitCore(Dev, "delete", <<ptr, out_handle, held>>, r.ret, <<>>,
                          ram, win)
            /\ out_handle' = r.out_handle
            /\ held' = r.held
            /\ UNCHANGED <<text, fault>>

\* ssd1306_set_text_size, ssd1306_set_cursor, ssd1306_set_text_color and
\* ssd1306_set_text_wrap on a live handle
SetText ==
    /\ CanCall(LifeOps)
    /\ out_handle = "live"
    /\ \E size \in {0, 2}, x \in {5}, color \in {OLED_COLOR_BLACK}, wr \in {FALSE} :
         /\ text' = [text EXCEPT !.textsize_x = IF size > 0 THEN size ELSE 1,
                                 !.textsize_y = IF size > 0 THEN size ELSE 1,
                                 !.cursor_x = x, !.cursor_y = x, !.moved = TRUE,
                                 !.textcolor = color, !.textbgcolor = color,
                                 !.wrap = wr]
         /\ CommitCore(Dev, "set_text", <<size, x, color, wr>>, "void", <<>>, ram, win)
         /\ UNCHANGED <<out_handle, held, fault>>

\* ssd1306_fill_buffer(handle, OLED_COLOR_WHITE) on a live handle
FillLive ==
    /\ CanCall(LifeOps)
    /\ out_handle = "live"
    /\ Draw(ssd1306_fill_buffer(Dev, OLED_COLOR_WHITE), "fill_buffer", <<OLED_COLOR_WHITE>>)

NextLife == Create \/ Delete \/ SetText \/ FillLive

SpecLife == InitLife /\ [][NextLife]_vars

\* C17: when create returns success, the text scale is 1x1, the foreground is
\* on, the background off, wrap is enabled, the font is the default font, the
\* cursor is (0,0), the framebuffer holds width*height/8 bytes, all 0, the
\* tracker is CLEAN, and the bus has seen, in this order and nothing else: one
\* command transaction that begins with 0xAE and ends with 0xAF, one window
\* command for the full panel, one data transaction of width*height/8 bytes
\* (each command transaction attempted up to three times).
C17_CreateSuccessState ==
    (LastIs("create") /\ hist[1].ret = "ESP_OK") =>
        /\ out_handle = "live"
        /\ text.textsize_x = 1 /\ text.textsize_y = 1
        /\ text.textcolor = OLED_COLOR_WHITE
        /\ text.textbgcolor = OLED_COLOR_BLACK
        /\ text.wrap
        /\ text.gfxFont = "FONT_5x7"
        /\ text.cursor_x = 0 /\ text.cursor_y = 0
        /\ DOMAIN buffer = 0 .. (ScreenWidth * ScreenHeight) \div 8 - 1
        /\ \A i \in DOMAIN buffer : buffer[i] = 0
        /\ Tracker(Dev) = CleanTracker
        /\ Len(bus) = 3
        /\ bus[1].ctl = OLED_CONTROL_BYTE_CMD_STREAM
        /\ bus[1].bytes[1] = 174 /\ bus[1].bytes[Len(bus[1].bytes)] = 175
        /\ bus[2].ctl = OLED_CONTROL_BYTE_CMD_STREAM
        /\ bus[2].bytes = WindowCmd(0, ScreenWidth - 1, 0, ScreenPages - 1)
        /\ bus[3].ctl = OLED_CONTROL_BYTE_DATA_STREAM
        /\ bus[3].len = (ScreenWidth * ScreenHeight) \div 8
        /\ bus[3].bytes = [k \in 1 .. (ScreenWidth * ScreenHeight) \div 8 |-> 0]
        /\ \A k \in 1 .. 3 : bus[k].ok

\* C17 witness: a create that succeeds after an earlier instance was painted
\* white, had its text state changed and was deleted, its bring-up commands
\* going through on the third attempt
C17_Witness ==
    /\ LastIs("create") /\ hist[1].ret = "ESP_OK"
    /\ Len(hist) = 2 /\ hist[2].op = "delete" /\ hist[2].ret = "ESP_OK"
    /\ bufs[1] = [i \in BufIdx |-> 255]
    /\ pre.needs_update
    /\ bus[1].results = <<FALSE, FALSE, TRUE>>

\* C18: whenever create returns an error, create has returned (the program
\* was not stopped), the error is the first one met, the caller's handle is as
\* it was (NULL when it was NULL), and the handle structure, the framebuffer
\* and the bus driver create had acquired are released: as many are held as
\* before the call.
C18_FailedCreateReleasesAll ==
    (LastIs("create") /\ hist[1].ret # "ESP_OK") =>
        /\ fault = "none"
        /\ hist[1].ret \in {"ESP_ERR_INVALID_ARG", "ESP_ERR_NO_MEM", "ESP_FAIL"}
        /\ (\E k \in DOMAIN bus : ~bus[k].ok) => hist[1].ret = "ESP_FAIL"
        /\ out_handle = hist[1].args[2]
        /\ held = hist[1].args[3]

\* C19: delete(&h) on a live handle returns success, releases the bus driver,
\* the framebuffer and the handle structure once each and leaves h NULL;
\* delete on a null pointer or on a handle that is already NULL returns
\* invalid-argument, releases nothing and sends nothing; nothing is ever
\* released twice, and a create with valid arguments that follows a delete(&h)
\* is not refused for its arguments.
C19_DeleteReleasesOnce ==
    /\ ~held.double_free
    /\ LastIs("delete") =>
          LET ptr == hist[1].args[1]
              h0 == hist[1].args[2]
              hd0 == hist[1].args[3]
          IN IF ptr = "valid" /\ h0 = "live"
             THEN /\ hist[1].ret = "ESP_OK"
                  /\ out_handle = "NULL"
                  /\ held.driver = hd0.driver - 1
                  /\ held.buffer = hd0.buffer - 1
                  /\ held.handle = hd0.handle - 1
                  /\ held.released = hd0.released + 1
             ELSE /\ hist[1].ret = "ESP_ERR_INVALID_ARG"
                  /\ out_handle = h0
                  /\ held = hd0
                  /\ bus = <<>>
    /\ (/\ LastIs("create") /\ Len(hist) = 2
        /\ hist[2].op = "delete" /\ hist[2].args[1] = "valid"
        /\ hist[1].args[1] = "ok") => hist[1].ret # "ESP_ERR_INVALID_ARG"

\* C19 witness: create, delete, delete, create, the second delete refused and
\* the second create successful
C19_Witness ==
    /\ steps = 4
    /\ LastIs("create") /\ hist[1].ret = "ESP_OK"
    /\ Len(hist) = 2
    /\ hist[2].op = "delete" /\ hist[2].args[1] = "valid"
    /\ hist[2].ret = "ESP_ERR_INVALID_ARG"
    /\ hist[2].prev = "delete"
    /\ held.released = 1
    /\ held.driver = 1 /\ held.buffer = 1 /\ held.handle = 1

----------------------------------------------------------------------------
(* SpecNull: one public operation called with a null handle, before any
   instance exists or while an instance is live *)

NullOps == 1

\* public operations that return esp_err_t, that return a number, and that
\* return nothing (ssd1306_create and ssd1306_delete are Create and Delete)
StatusOps == {"update_screen", "display_on", "display_off"}
ValueOps == {"get_cursor_x", "get_cursor_y", "get_screen_width", "get_screen_height",
             "print", "write"}
VoidOps ==
    {"clear_buffer", "fill_buffer", "set_text_size", "set_text_size_custom",
     "set_font", "set_cursor", "set_text_color", "set_text_color_bg",
     "set_text_wrap", "draw_char", "get_text_bounds", "draw_pixel", "draw_line",
     "draw_fast_vline", "draw_fast_hline", "draw_rect", "fill_rect", "draw_circle",
     "fill_circle", "draw_triangle", "fill_triangle", "draw_round_rect",
     "fill_round_rect", "draw_bitmap", "draw_bitmap_bg", "draw_xbitmap",
     "invert_display", "set_contrast", "stop_scroll", "start_scroll_right",
     "start_scroll_left", "start_scroll_diag_right_down",
     "start_scroll_diag_left_up", "draw_arc", "draw_polyline", "shift_framebuffer",
     "set_orientation", "set_display_start_line", "print_centered_h",
     "print_screen_center", "print_h"}
PublicOps == StatusOps \cup ValueOps \cup VoidOps

\* the operations whose first use of handle is a dereference
DerefFirst == {"draw_pixel", "start_scroll_diag_left_up"}

\* op(NULL, x, ...): the value returned and how the call can end.  Every
\* operation outside DerefFirst tests handle itself, or hands it untouched to
\* _ssd1306_send_cmd_list, _ssd1306_start_scroll or _ssd1306_start_diag_scroll,
\* which test it.  ssd1306_draw_pixel evaluates x < 0 first and reads
\* handle->config.screen_width when x >= 0; ssd1306_start_scroll_diag_left_up
\* reads handle->config.screen_height at once.  A read through NULL is
\* undefined: it traps, or it delivers some value and the call goes on, to
\* the clipping test and then either a return or a store through the junk
\* buffer pointer (draw_pixel), or to the helper's own test (diag_left_up)
NullCall(op, x) ==
    LET value == IF op \in StatusOps THEN "ESP_ERR_INVALID_ARG"
                 ELSE IF op \in ValueOps THEN 0 ELSE "void"
    IN IF op = "draw_pixel" /\ x >= 0
       THEN [ret |-> value, ends |-> {"null_trap", "null_read", "null_store"}]
       ELSE IF op = "start_scroll_diag_left_up"
       THEN [ret |-> value, ends |-> {"null_trap", "null_read"}]
       ELSE [ret |-> value, ends |-> {"none"}]

CallWithNull ==
    /\ CanCall(NullOps)
    /\ \E op \in PublicOps :
         \E x \in IF op = "draw_pixel" THEN {-1, 0} ELSE {0} :
         LET c == NullCall(op, x)
         IN \E e \in c.ends :
               /\ CommitCore([Dev EXCEPT !.oob = (e = "null_store")], "null_call",
                             <<op, x>>, IF e = "null_trap" THEN "none" ELSE c.ret,
                             <<>>, ram, win)
               /\ fault' = e
               /\ UNCHANGED <<out_handle, held, text>>

InitNull == InitLife \/ InitWith(ZeroBuffer) \/ InitWith(MixedBuffer)

NextNull == CallWithNull

SpecNull == InitNull /\ [][NextNull]_vars

\* C20: every public operation called with a null handle returns at once,
\* invalid-argument from the operations that return a status, 0 from those
\* that return a number, nothing from the others, without reading or writing
\* through the handle, without a bus transaction and without a change of
\* state; draw_pixel and start_scroll_diag_left_up included.
C20_NullHandleRejected ==
    LastIs("null_call") =>
        LET op == hist[1].args[1]
        IN /\ fault = "none"
           /\ ~oob
           /\ hist[1].ret = (IF op \in {"update_screen", "display_on", "display_off"}
                             THEN "ESP_ERR_INVALID_ARG"
                             ELSE IF op \in {"get_cursor_x", "get_cursor_y",
                                             "get_screen_width", "get_screen_height",
                                             "print", "write"}
                             THEN 0 ELSE "void")
           /\ bus = <<>>
           /\ buffer = bufs[1]
           /\ Tracker(Dev) = pre

----------------------------------------------------------------------------
(* The text engine: fonts, ssd1306_draw_char, ssd1306_write, ssd1306_print and
   ssd1306_get_text_bounds *)

\* a glyph-table font (GFXfont) with four glyphs, 'A' to 'D': a 2x2 glyph above
\* the baseline, a 1x3 glyph above the baseline set off by one column, a 1x1
\* glyph below the baseline, and a blank of no area.  The bitmap is one bit
\* per pixel, most significant bit first, glyph after glyph
ModelFont ==
    [first |-> 65, last |-> 68, yAdvance |-> 4,
     glyph |-> <<[bitmapOffset |-> 0, width |-> 2, height |-> 2, xAdvance |-> 3,
                  xOffset |-> 0, yOffset |-> -2],
                 [bitmapOffset |-> 1, width |-> 1, height |-> 3, xAdvance |-> 2,
                  xOffset |-> 1, yOffset |-> -3],
                 [bitmapOffset |-> 2, width |-> 1, height |-> 1, xAdvance |-> 1,
                  xOffset |-> 0, yOffset |-> 0],
                 [bitmapOffset |-> 3, width |-> 0, height |-> 0, xAdvance |-> 1,
                  xOffset |-> 0, yOffset |-> 0]>>,
     bitmap |-> <<176, 160, 128, 0>>]

\* gfxFont->font_data of a font handle that is not NULL
FontData(gfxFont) == ModelFont

\* &font->glyph[c - font->first]
GlyphOf(font, c) == font.glyph[c - font.first + 1]

NewLine == 10
CarriageReturn == 13

RECURSIVE GlyphLoop(_, _, _, _)
\* the two nested loops of ssd1306_draw_char, k = yy * w + xx counting the
\* pixels taken from the bitmap so far (the variable bit); p: the call
GlyphLoop(d, k, p, g) ==
    IF k >= g.width * g.height \/ d.hang THEN d
    ELSE LET xx == k % g.width
             yy == k \div g.width
             bits == p.font.bitmap[g.bitmapOffset + k \div 8 + 1]
             set == BitOf(bits, 7 - (k % 8)) = 1
             col == IF set THEN p.color ELSE p.bg_color
             d1 == IF set \/ p.color # p.bg_color
                   THEN IF p.size_x = 1 /\ p.size_y = 1
                        THEN ssd1306_draw_pixel(d, ToI16(p.x + g.xOffset + xx),
                                                ToI16(p.y + g.yOffset + yy), col)
                        ELSE ssd1306_fill_rect(d, ToI16(p.x + (g.xOffset + xx) * p.size_x),
                                               ToI16(p.y + (g.yOffset + yy) * p.size_y),
                                               p.size_x, p.size_y, col)
                   ELSE d
         IN GlyphLoop(d1, k + 1, p, g)

\* ssd1306_draw_char on a live handle whose font handle is gfxFont
ssd1306_draw_char(d, gfxFont, x, y, c, color, bg_color, size_x, size_y) ==
    IF gfxFont = "NULL" THEN d
    ELSE IF c < FontData(gfxFont).first \/ c > FontData(gfxFont).last THEN d
    ELSE LET font == FontData(gfxFont)
             g == GlyphOf(font, c)
         IN IF g.width = 0 \/ g.height = 0 THEN d
            ELSE GlyphLoop(ssd1306_mark_dirty(d, ToI16(x + g.xOffset * size_x),
                                              ToI16(y + g.yOffset * size_y),
                                              ToI16(g.width * size_x),
                                              ToI16(g.height * size_y)),
                           0, [font |-> font, x |-> x, y |-> y, color |-> color,
                               bg_color |-> bg_color, size_x |-> size_x,
                               size_y |-> size_y], g)

\* the scaled box of glyph g placed with the cursor at (x, y)
GlyphBox(g, x, y, size_x, size_y) ==
    [x1 |-> x + g.xOffset * size_x, y1 |-> y + g.yOffset * size_y,
     x2 |-> x + g.xOffset * size_x + g.width * size_x - 1,
     y2 |-> y + g.yOffset * size_y + g.height * size_y - 1]

\* ssd1306_write wrapping a glyph that ends exactly at the right edge
WriteWrapsAtEdge(d, t, c) ==
    IF t.gfxFont = "NULL" THEN [d |-> d, t |-> t, ret |-> 0, ev |-> <<>>]
    ELSE LET font == FontData(t.gfxFont)
         IN IF c = NewLine
            THEN [d |-> d,
                  t |-> [t EXCEPT !.cursor_x = 0,
                                  !.cursor_y = ToI16(@ + t.textsize_y * font.yAdvance),
                                  !.moved = TRUE],
                  ret |-> 1, ev |-> <<>>]
            ELSE IF c = CarriageReturn \/ c < font.first \/ c > font.last
            THEN [d |-> d, t |-> t, ret |-> 1, ev |-> <<>>]
            ELSE LET g == GlyphOf(font, c)
                     adj == t.cursor_x = 0 /\ t.cursor_y = 0 /\ g.yOffset < 0
                     t1 == IF adj THEN [t EXCEPT !.cursor_y = -g.yOffset + 1] ELSE t
                     wr == t1.wrap /\ t1.cursor_x + t1.textsize_x * (g.xOffset + g.width)
                                       >= ScreenWidth
                     t2 == IF wr
                           THEN [t1 EXCEPT !.cursor_x = 0,
                                           !.cursor_y = ToI16(@ + t1.textsize_y * font.yAdvance)]
                           ELSE t1
                 IN [d |-> ssd1306_draw_char(d, t2.gfxFont, t2.cursor_x, t2.cursor_y, c,
                                             t2.textcolor, t2.textbgcolor,
                                             t2.textsize_x, t2.textsize_y),
                     t |-> [t2 EXCEPT !.cursor_x = ToI16(@ + g.xAdvance * t2.textsize_x),
                                      !.moved = TRUE],
                     ret |-> 1,
                     ev |-> <<[c |-> c, wrapped |-> wr, adjusted |-> adj,
                               x |-> t2.cursor_x, y |-> t2.cursor_y]>>]

\* ssd1306_write on a live handle: the framebuffer and tracker, the graphics
\* state, the value returned and, for a glyph handed to ssd1306_draw_char,
\* what was decided for it (ev): whether the origin adjustment and the wrap
\* were taken and where the cursor was when it was drawn
ssd1306_write(d, t, c) ==
    IF t.gfxFont = "NULL" THEN [d |-> d, t |-> t, ret |-> 0, ev |-> <<>>]
    ELSE LET font == FontData(t.gfxFont)
         IN IF c = NewLine
            THEN [d |-> d,
                  t |-> [t EXCEPT !.cursor_x = 0,
                                  !.cursor_y = ToI16(@ + t.textsize_y * font.yAdvance),
                                  !.moved = TRUE],
                  ret |-> 1, ev |-> <<>>]
            ELSE IF c = CarriageReturn \/ c < font.first \/ c > font.last
            THEN [d |-> d, t |-> t, ret |-> 1, ev |-> <<>>]
            ELSE LET g == GlyphOf(font, c)
                     adj == t.cursor_x = 0 /\ t.cursor_y = 0 /\ g.yOffset < 0
                     t1 == IF adj THEN [t EXCEPT !.cursor_y = -g.yOffset + 1] ELSE t
                     wr == t1.wrap /\ t1.cursor_x + t1.textsize_x * (g.xOffset + g.width)
                                       > ScreenWidth
                     t2 == IF wr
                           THEN [t1 EXCEPT !.cursor_x = 0,
                                           !.cursor_y = ToI16(@ + t1.textsize_y * font.yAdvance)]
                           ELSE t1
                 IN [d |-> ssd1306_draw_char(d, t2.gfxFont, t2.cursor_x, t2.cursor_y, c,
                                             t2.textcolor, t2.textbgcolor,
                                             t2.textsize_x, t2.textsize_y),
                     t |-> [t2 EXCEPT !.cursor_x = ToI16(@ + g.xAdvance * t2.textsize_x),
                                      !.moved = TRUE],
                     ret |-> 1,
                     ev |-> <<[c |-> c, wrapped |-> wr, adjusted |-> adj,
                               x |-> t2.cursor_x, y |-> t2.cursor_y]>>]

RECURSIVE PrintLoop(_, _, _, _, _)
\* while (*str) of ssd1306_print; n counts the characters written
PrintLoop(d, t, str, n, ev) ==
    IF str = <<>> \/ d.hang THEN [d |-> d, t |-> t, ret |-> n, ev |-> ev]
    ELSE LET r == ssd1306_write(d, t, Head(str))
         IN IF r.ret = 1 THEN PrintLoop(r.d, r.t, Tail(str), n + 1, ev \o r.ev)
            ELSE [d |-> r.d, t |-> r.t, ret |-> n, ev |-> ev]

ssd1306_print(d, t, str) == PrintLoop(d, t, str, 0, <<>>)

\* _ssd1306_char_bounds: st holds *x, *y, *minx, *miny, *maxx, *maxy; ev as for
\* ssd1306_write
ssd1306_char_bounds(t, c, st) ==
    IF t.gfxFont = "NULL" THEN st
    ELSE LET font == FontData(t.gfxFont)
         IN IF c = NewLine
            THEN [st EXCEPT !.x = 0, !.y = ToI16(@ + t.textsize_y * font.yAdvance)]
            ELSE IF c = CarriageReturn \/ c < font.first \/ c > font.last THEN st
            ELSE LET g == GlyphOf(font, c)
                     wr == t.wrap /\ st.x + (g.xOffset + g.width) * t.textsize_x > ScreenWidth
                     x == IF wr THEN 0 ELSE st.x
                     y == IF wr THEN ToI16(st.y + t.textsize_y * font.yAdvance) ELSE st.y
                     x1 == ToI16(x + g.xOffset * t.textsize_x)
                     y1 == ToI16(y + g.yOffset * t.textsize_y)
                     x2 == ToI16(x1 + g.width * t.textsize_x - 1)
                     y2 == ToI16(y1 + g.height * t.textsize_y - 1)
                 IN [x |-> ToI16(x + g.xAdvance * t.textsize_x), y |-> y,
                     minx |-> IF x1 < st.minx THEN x1 ELSE st.minx,
                     miny |-> IF y1 < st.miny THEN y1 ELSE st.miny,
                     maxx |-> IF x2 > st.maxx THEN x2 ELSE st.maxx,
                     maxy |-> IF y2 > st.maxy THEN y2 ELSE st.maxy,
                     ev |-> st.ev \o <<[c |-> c, wrapped |-> wr, adjusted |-> FALSE,
                                        x |-> x, y |-> y]>>]

RECURSIVE BoundsLoop(_, _, _)
\* while ((c = *str++)) of ssd1306_get_text_bounds
BoundsLoop(t, str, st) ==
    IF str = <<>> THEN st
    ELSE BoundsLoop(t, Tail(str), ssd1306_char_bounds(t, Head(str), st))

\* ssd1306_get_text_bounds(handle, str, x, y, &x1, &y1, &w, &h)
ssd1306_get_text_bounds(t, str, x, y) ==
    LET st == BoundsLoop(t, str, [x |-> x, y |-> y, minx |-> ScreenWidth,
                                  miny |-> ScreenHeight, maxx |-> -1, maxy |-> -1,
                                  ev |-> <<>>])
    IN [x1 |-> IF st.maxx >= st.minx THEN st.minx ELSE x,
        w |-> IF st.maxx >= st.minx THEN ToU16(st.maxx - st.minx + 1) ELSE 0,
        y1 |-> IF st.maxy >= st.miny THEN st.miny ELSE y,
        h |-> IF st.maxy >= st.miny THEN ToU16(st.maxy - st.miny + 1) ELSE 0,
        ev |-> st.ev]

\* ssd1306_set_cursor on a live handle
ssd1306_set_cursor(t, x, y) ==
    [t EXCEPT !.cursor_x = x, !.cursor_y = y, !.moved = ~(x = 0 /\ y = 0)]

\* a / b of C for b > 0: the quotient truncated toward zero
CDiv(a, b) == IF a >= 0 THEN a \div b ELSE -((-a) \div b)

\* ssd1306_print_h: set_cursor(0, y), then print
ssd1306_print_h(d, t, str, y) ==
    ssd1306_print(d, ssd1306_set_cursor(t, 0, y), str)

\* ssd1306_print_centered_h: measure at (0, 0), set_cursor((width - w) / 2, y),
\* then print
ssd1306_print_centered_h(d, t, str, y) ==
    LET m == ssd1306_get_text_bounds(t, str, 0, 0)
        x == ToI16(CDiv(ScreenWidth - m.w, 2))
    IN ssd1306_print(d, ssd1306_set_cursor(t, x, y), str)

\* ssd1306_print_screen_center: measure at (0, 0),
\* set_cursor((width - w) / 2, (height + h) / 2), then print
ssd1306_print_screen_center(d, t, str) ==
    LET m == ssd1306_get_text_bounds(t, str, 0, 0)
        x == ToI16(CDiv(ScreenWidth - m.w, 2))
        y == ToI16(CDiv(ScreenHeight + m.h, 2))
    IN ssd1306_print(d, ssd1306_set_cursor(t, x, y), str)

----------------------------------------------------------------------------
(* SpecBatch: drawing, shift and text calls between flushes *)

BatchOps == 3

\* a call that may move the cursor: the drawing fields and the graphics state
CommitText(d, t, op, args, ret) ==
    /\ CommitCore(d, op, args, ret, <<>>, ram, win)
    /\ text' = t
    /\ UNCHANGED <<out_handle, held, fault>>

\* pixel, horizontal run, line, filled rectangle
BatchShape ==
    /\ CanCall(BatchOps)
    /\ \/ Draw(ssd1306_draw_pixel(Dev, 1, 9, OLED_COLOR_WHITE), "draw_pixel",
               <<1, 9, OLED_COLOR_WHITE>>)
       \/ Draw(ssd1306_draw_fast_hline(Dev, 1, 0, 2, OLED_COLOR_WHITE),
               "draw_fast_hline", <<1, 0, 2, OLED_COLOR_WHITE>>)
       \/ Draw(ssd1306_draw_line(Dev, 0, 0, 2, 5, OLED_COLOR_WHITE), "draw_line",
               <<0, 0, 2, 5, OLED_COLOR_WHITE>>)
       \/ Draw(ssd1306_fill_rect(Dev, 2, 17, 2, 2, OLED_COLOR_WHITE), "fill_rect",
               <<2, 17, 2, 2, OLED_COLOR_WHITE>>)

\* blit, whole-buffer fill and clear, shift
BatchBuffer ==
    /\ CanCall(BatchOps)
    /\ \/ Draw(ssd1306_draw_bitmap_bg(Dev, 0, 7, Bitmap2, 2, 2, OLED_COLOR_WHITE,
                                      OLED_COLOR_BLACK),
               "draw_bitmap_bg", <<0, 7, 2, 2, OLED_COLOR_BLACK>>)
       \/ Draw(ssd1306_fill_buffer(Dev, OLED_COLOR_WHITE), "fill_buffer",
               <<OLED_COLOR_WHITE>>)
       \/ Draw(ssd1306_clear_buffer(Dev), "clear_buffer", <<>>)
       \/ Draw(ssd1306_shift_framebuffer(Dev, 0, 1, TRUE), "shift_framebuffer",
               <<0, 1, TRUE>>)

\* draw_char, write, print, get_text_bounds and the centered prints
BatchText ==
    /\ CanCall(BatchOps)
    /\ \/ Draw(ssd1306_draw_char(Dev, text.gfxFont, 1, 12, 65, OLED_COLOR_WHITE,
                                 OLED_COLOR_BLACK, 1, 2),
               "draw_char", <<1, 12, 65>>)
       \/ LET r == ssd1306_write(Dev, text, 66)
          IN CommitText(r.d, r.t, "write", <<66>>, r.ret)
       \/ LET r == ssd1306_print(Dev, text, <<65, 66>>)
          IN CommitText(r.d, r.t, "print", <<<<65, 66>>>>, r.ret)
       \/ LET m == ssd1306_get_text_bounds(text, <<65, 66>>, 0, 8)
          IN CommitText(Dev, text, "get_text_bounds", <<<<65, 66>>, 0, 8>>,
                        <<m.x1, m.y1, m.w, m.h>>)
       \/ LET r == ssd1306_print_centered_h(Dev, text, <<66>>, 16)
          IN CommitText(r.d, r.t, "print_centered_h", <<<<66>>, 16>>, "void")
       \/ LET r == ssd1306_print_screen_center(Dev, text, <<65>>)
          IN CommitText(r.d, r.t, "print_screen_center", <<<<65>>>>, "void")

\* a flush that goes through and one whose data transaction fails
BatchFlush ==
    /\ CanCall(BatchOps)
    /\ \E io \in {[outs |-> FailFirst(0), link |-> TRUE, data |-> TRUE, junk |-> 0],
                  [outs |-> FailFirst(1), link |-> TRUE, data |-> FALSE, junk |-> 0]} :
         LET u == ssd1306_update_screen(Dev, ram, win, io)
         IN Commit(u.d, "update_screen", <<>>, u.ret, u.bus, u.ram, u.win)

NextBatch == BatchShape \/ BatchBuffer \/ BatchText \/ BatchFlush

SpecBatch == Init /\ [][NextBatch]_vars

\* C21: a drawing, shift or text call sends nothing on the bus and never
\* shrinks the tracker (a DIRTY tracker stays DIRTY, the tracked rectangle
\* keeps every column and page it had), and a flush sends at most one data
\* transaction, whatever number of calls were made since the flush before.
C21_DrawingNeverFlushes ==
    /\ (hist # <<>> /\ hist[1].op # "update_screen") =>
          /\ bus = <<>>
          /\ hist[1].ndata = 0 /\ hist[1].ncmd = 0
          /\ pre.needs_update => needs_update
          /\ min_col <= pre.min_col /\ max_col >= pre.max_col
          /\ min_page <= pre.min_page /\ max_page >= pre.max_page
    /\ LastIs("update_screen") => (NData(bus) <= 1 /\ hist[1].ndata <= 1)

\* C21 witness: a pixel, then a print elsewhere, then one flush that sends a
\* single data transaction covering both
C21_Witness ==
    /\ steps = 3
    /\ LastIs("update_screen") /\ hist[1].ret = "ESP_OK"
    /\ hist[2].op = "print" /\ hist[2].prev = "draw_pixel"
    /\ NData(bus) = 1
    /\ pre.min_col = 0 /\ pre.max_col >= 1 /\ pre.min_page = 0 /\ pre.max_page = 1
    /\ ram = buffer

----------------------------------------------------------------------------
(* SpecText: cursor, scale and wrap settings followed by ssd1306_write and
   ssd1306_print *)

TextOps == 3

\* ssd1306_set_text_size on a live handle
ssd1306_set_text_size(t, size) ==
    [t EXCEPT !.textsize_x = IF size > 0 THEN size ELSE 1,
              !.textsize_y = IF size > 0 THEN size ELSE 1]

\* ssd1306_set_text_wrap on a live handle
ssd1306_set_text_wrap(t, w) == [t EXCEPT !.wrap = w]

SetCursor ==
    /\ CanCall(TextOps)
    /\ \E p \in {<<0, 0>>, <<2, 5>>, <<0, -4>>} :
         CommitText(Dev, ssd1306_set_cursor(text, p[1], p[2]), "set_cursor", p, "void")

SetTextSize ==
    /\ CanCall(TextOps)
    /\ CommitText(Dev, ssd1306_set_text_size(text, 2), "set_text_size", <<2>>, "void")

SetTextWrap ==
    /\ CanCall(TextOps)
    /\ CommitText(Dev, ssd1306_set_text_wrap(text, FALSE), "set_text_wrap", <<FALSE>>,
                  "void")

\* the characters written: the four glyphs, newline, carriage return and a
\* character below the font's range
Chars == {65, 66, 67, 68, NewLine, CarriageReturn, 64}

Write ==
    /\ CanCall(TextOps)
    /\ \E c \in Chars :
         LET r == ssd1306_write(Dev, text, c)
         IN CommitText(r.d, r.t, "write", <<c, text, r.ev>>, r.ret)

\* the strings printed: "AB", "\nA", "BAC", "DA"
Strings == {<<65, 66>>, <<NewLine, 65>>, <<66, 65, 67>>, <<68, 65>>}

PrintText ==
    /\ CanCall(TextOps)
    /\ \E str \in Strings :
         LET r == ssd1306_print(Dev, text, str)
         IN CommitText(r.d, r.t, "print", <<str, text, r.ev>>, r.ret)

NextText == SetCursor \/ SetTextSize \/ SetTextWrap \/ Write \/ PrintText

SpecText == Init /\ [][NextText]_vars

\* the glyph boxes of non-zero area that the decisions ev place
DrawnBoxes(t, ev) ==
    { GlyphBox(GlyphOf(FontData(t.gfxFont), ev[k].c), ev[k].x, ev[k].y,
               t.textsize_x, t.textsize_y) :
        k \in { j \in DOMAIN ev :
                 LET g == GlyphOf(FontData(t.gfxFont), ev[j].c)
                 IN g.width > 0 /\ g.height > 0 } }

SetMinOf(S) == CHOOSE m \in S : \A n \in S : m <= n
SetMaxOf(S) == CHOOSE m \in S : \A n \in S : m >= n

\* C22: get_text_bounds(s) at the cursor, then print(s) from that cursor: both
\* take the wrap for the same characters, and the bounding box of the glyph
\* boxes print draws is the measured (x1, y1, w, h); for every string, scale,
\* wrap flag and starting cursor, the origin (0,0) included.
C22_MeasureMatchesPrint ==
    LastIs("print") =>
        LET str == hist[1].args[1]
            t0 == hist[1].args[2]
            ev == hist[1].args[3]
            m == ssd1306_get_text_bounds(t0, str, t0.cursor_x, t0.cursor_y)
            boxes == DrawnBoxes(t0, ev)
        IN /\ Len(m.ev) = Len(ev)
           /\ \A k \in DOMAIN ev : m.ev[k].wrapped = ev[k].wrapped
           /\ boxes # {} =>
                 /\ m.x1 = SetMinOf({b.x1 : b \in boxes})
                 /\ m.y1 = SetMinOf({b.y1 : b \in boxes})
                 /\ m.w = SetMaxOf({b.x2 : b \in boxes}) - m.x1 + 1
                 /\ m.h = SetMaxOf({b.y2 : b \in boxes}) - m.y1 + 1

\* what C23 and its amended form expect of the write hist[1] of character c
\* from graphics state t0, the origin adjustment taken (adj) or not
WriteAsStated(c, t0, adj) ==
    LET font == FontData(t0.gfxFont)
        line == t0.textsize_y * font.yAdvance
    IN IF c = NewLine
       THEN /\ text.cursor_x = 0 /\ text.cursor_y = t0.cursor_y + line
            /\ buffer = bufs[1]
       ELSE IF c = CarriageReturn \/ c < font.first \/ c > font.last
       THEN /\ text.cursor_x = t0.cursor_x /\ text.cursor_y = t0.cursor_y
            /\ buffer = bufs[1] /\ Tracker(Dev) = pre
       ELSE LET g == GlyphOf(font, c)
                y0 == IF adj THEN -g.yOffset + 1 ELSE t0.cursor_y
                wr == t0.wrap /\ t0.cursor_x + t0.textsize_x * (g.xOffset + g.width)
                                  > ScreenWidth
                x == IF wr THEN 0 ELSE t0.cursor_x
                y == IF wr THEN y0 + line ELSE y0
                drawn == ssd1306_draw_char(DevBefore, t0.gfxFont, x, y, c, t0.textcolor,
                                           t0.textbgcolor, t0.textsize_x, t0.textsize_y)
            IN /\ buffer = drawn.buffer
               /\ Tracker(Dev) = Tracker(drawn)
               /\ text.cursor_x = x + g.xAdvance * t0.textsize_x
               /\ text.cursor_y = y

\* C23 as stated: write(c): newline sets cursor_x to 0 and adds textsize_y *
\* line_advance to cursor_y; carriage return and characters outside the font
\* change neither cursor nor framebuffer; any other character first wraps when
\* wrap is on and cursor_x + textsize_x * (x_offset + width) > screen_width, is
\* then drawn at the cursor, and cursor_x then advances by advance *
\* textsize_x, cursor_y being left as it is.
C23_WriteCursorRule ==
    LastIs("write") => WriteAsStated(hist[1].args[1], hist[1].args[2], FALSE)

\* C23 amended: the same, except that a glyph with y_offset < 0 written with
\* the cursor at (0,0) first has cursor_y set to -y_offset + 1, before the
\* wrap test, the drawing and the advance.
C23_WriteCursorRuleWithOriginShift ==
    LastIs("write") =>
        LET c == hist[1].args[1]
            t0 == hist[1].args[2]
            font == FontData(t0.gfxFont)
        IN WriteAsStated(c, t0,
               /\ c >= font.first /\ c <= font.last
               /\ t0.cursor_x = 0 /\ t0.cursor_y = 0
               /\ GlyphOf(font, c).yOffset < 0)

\* C23 witness: a glyph written at scale 2 away from the origin that wrapped
\* to the next line before it was drawn
C23_Witness ==
    /\ LastIs("write")
    /\ hist[1].args[3] # <<>>
    /\ hist[1].args[3][1].wrapped
    /\ hist[1].args[2].textsize_x = 2
    /\ hist[1].args[2].cursor_x = 2 /\ hist[1].args[2].cursor_y = 5
    /\ text.cursor_y = 5 + 2 * ModelFont.yAdvance


\* C24: the origin adjustment of write happens at most once per string and
\* only for the first glyph of a string that starts with the cursor at the
\* origin where create left it (never moved by the caller or by a write):
\* that glyph is placed at cursor_y = -y_offset + 1 and the glyphs after it on
\* the same line at the same cursor_y; a cursor anywhere else, or one the
\* caller moved and the writes then advanced, is never adjusted.
C24_AdjustOnlyAtUntouchedOrigin ==
    (LastIs("write") \/ LastIs("print")) =>
        LET t0 == hist[1].args[2]
            ev == hist[1].args[3]
        IN /\ Cardinality({k \in DOMAIN ev : ev[k].adjusted}) <= 1
           /\ \A k \in DOMAIN ev :
                  ev[k].adjusted =>
                      /\ k = 1
                      /\ ~t0.moved /\ t0.cursor_x = 0 /\ t0.cursor_y = 0
                      /\ GlyphOf(FontData(t0.gfxFont), ev[k].c).yOffset < 0
                      /\ ev[k].wrapped \/
                             ev[k].y = -GlyphOf(FontData(t0.gfxFont), ev[k].c).yOffset + 1
                      /\ \A j \in DOMAIN ev :
                             (\A i \in 1..j : ~ev[i].wrapped) => ev[j].y = ev[1].y


\* C25: for dy = 0, wrap = false and 0 < |dx| < width, shift(dx, 0, false)
\* leaves pixel (x, y) on exactly when 0 <= x - dx < width and pixel
\* (x - dx, y) was on before: the block move gives the framebuffer the
\* pixel-by-pixel remap without wrap gives, and a pixel pushed past the left
\* or right edge does not come back in another page.
C25_FastShiftIsPixelShift ==
    (/\ LastIs("shift_framebuffer")
     /\ ~hist[1].args[3] /\ hist[1].args[2] = 0
     /\ Abs(hist[1].args[1]) > 0 /\ Abs(hist[1].args[1]) < ScreenWidth) =>
        /\ buffer = ShiftPixels(bufs[1], hist[1].args[1], 0, FALSE)
        /\ \A x \in 0 .. ScreenWidth - 1, y \in 0 .. ScreenHeight - 1 :
               PixelOn(buffer, x, y) <=>
                   /\ x - hist[1].args[1] \in 0 .. ScreenWidth - 1
                   /\ PixelOn(bufs[1], x - hist[1].args[1], y)


\* C26: after draw_bitmap_bg(x, y, bitmap, w, h, color, bg_color) every
\* on-screen pixel (x + i, y + j) of the bitmap's rectangle is what bit
\* (7 - i mod 8) of bitmap byte j * ceil(w / 8) + i / 8 alone decides:
\* foreground for a 1, background (drawn only when it differs from the
\* foreground) for a 0, whichever other columns or rows of the bitmap were
\* clipped; pixels outside the rectangle keep their value.
C26_BitmapPixelFromItsOwnBit ==
    LastIs("draw_bitmap_bg") =>
        LET x == hist[1].args[1]
            y == hist[1].args[2]
            w == hist[1].args[3]
            h == hist[1].args[4]
            bg_color == hist[1].args[5]
            color == OLED_COLOR_WHITE
            byte_width == (w + 7) \div 8
            After(was, c) == CASE c = OLED_COLOR_WHITE -> TRUE
                               [] c = OLED_COLOR_BLACK -> FALSE
                               [] OTHER -> ~was
        IN \A cx \in 0 .. ScreenWidth - 1, cy \in 0 .. ScreenHeight - 1 :
               LET i == cx - x
                   j == cy - y
                   was == PixelOn(bufs[1], cx, cy)
               IN IF i >= 0 /\ i < w /\ j >= 0 /\ j < h
                  THEN LET bit == BitOf(Bitmap2[j * byte_width + i \div 8], 7 - (i % 8))
                           pixel_color == IF bit = 1 THEN color ELSE bg_color
                       IN PixelOn(buffer, cx, cy) =
                              IF color # bg_color \/ pixel_color = color
                              THEN After(was, pixel_color) ELSE was
                  ELSE PixelOn(buffer, cx, cy) = was


----------------------------------------------------------------------------
(* SpecShape: ssd1306_draw_line with its end points in either order,
   ssd1306_draw_arc and ssd1306_fill_triangle *)

\* calls in a run of SpecShape
ShapeOps == 2

\* (int16_t)(r * cosf(angle * M_PI / 180.0f)) for r = 1: the product is
\* truncated toward zero, so it is 0 unless the cosine is 1 or -1
TruncCos(r, angle) ==
    CASE angle % 360 = 0   -> r
      [] angle % 360 = 180 -> -r
      [] OTHER -> 0

\* (int16_t)(r * sinf(angle * M_PI / 180.0f)) for r = 1
TruncSin(r, angle) ==
    CASE angle % 360 = 90  -> r
      [] angle % 360 = 270 -> -r
      [] OTHER -> 0

\* while (end_angle < start_angle) end_angle += 360: the int16_t end_angle
\* wraps, so it takes the values congruent to it modulo 8 and the loop ends only
\* when one of them is at least start_angle
ArcEndNeverReached(start_angle, end_angle) ==
    /\ end_angle < start_angle
    /\ 32767 - ((32767 - end_angle) % 8) < start_angle

RECURSIVE ArcEnd(_, _)
ArcEnd(start_angle, end_angle) ==
    IF end_angle < start_angle THEN ArcEnd(start_angle, ToI16(end_angle + 360))
    ELSE end_angle

RECURSIVE ArcLoop(_, _, _, _, _, _, _)
\* for (int16_t angle = start_angle; angle <= end_angle; angle++)
ArcLoop(d, angle, end_angle, x0, y0, r, color) ==
    IF angle <= end_angle /\ ~d.hang
    THEN LET x == ToI16(x0 + TruncCos(r, angle))
             y == ToI16(y0 + TruncSin(r, angle))
             d1 == ssd1306_draw_pixel(d, x, y, color)
         IN IF angle = 32767 THEN [d1 EXCEPT !.hang = TRUE]
            ELSE ArcLoop(d1, angle + 1, end_angle, x0, y0, r, color)
    ELSE d

ssd1306_draw_arc(d, x0, y0, r, start_angle, end_angle, color) ==
    IF r <= 0 THEN d
    ELSE IF ArcEndNeverReached(start_angle, end_angle) THEN [d EXCEPT !.hang = TRUE]
    ELSE ArcLoop(d, start_angle, ArcEnd(start_angle, end_angle), x0, y0, r, color)

\* a / b of C for b # 0
TruncDiv(a, b) == IF b > 0 THEN CDiv(a, b) ELSE CDiv(-a, -b)

\* the three conditional swaps that sort the vertices by y
SortVertices(x0, y0, x1, y1, x2, y2) ==
    LET s1 == IF y0 > y1 THEN <<x1, y1, x0, y0, x2, y2>> ELSE <<x0, y0, x1, y1, x2, y2>>
        s2 == IF s1[4] > s1[6] THEN <<s1[1], s1[2], s1[5], s1[6], s1[3], s1[4]>> ELSE s1
    IN IF s2[2] > s2[4] THEN <<s2[3], s2[4], s2[1], s2[2], s2[5], s2[6]>> ELSE s2

RECURSIVE ScanLoop(_, _, _, _, _, _)
\* one scanline loop of ssd1306_fill_triangle: for (; y <= last; y++) with
\* a = xa + sa / dya, b = xb + sb / dyb.  st holds the handle, y, sa, sb, the
\* runs handed to ssd1306_draw_fast_hline so far and whether a division by
\* zero was reached; e holds the loop's constants
ScanLoop(st, last, sa, sb, e, pass) ==
    IF st.y <= last /\ ~st.d.hang /\ ~st.div0
    THEN IF e.dya = 0 \/ e.dyb = 0 THEN [st EXCEPT !.div0 = TRUE]
         ELSE LET a == ToI16(e.xa + TruncDiv(sa, e.dya))
                  b == ToI16(e.xb + TruncDiv(sb, e.dyb))
                  lo == IF a > b THEN b ELSE a
                  hi == IF a > b THEN a ELSE b
                  w == ToI16(hi - lo + 1)
                  d1 == ssd1306_draw_fast_hline(st.d, lo, st.y, w, e.color)
                  runs1 == Append(st.runs, [pass |-> pass, y |-> st.y, x |-> lo, w |-> w])
              IN IF st.y = 32767
                 THEN [st EXCEPT !.d = [d1 EXCEPT !.hang = TRUE], !.runs = runs1]
                 ELSE ScanLoop([st EXCEPT !.d = d1, !.y = st.y + 1, !.runs = runs1],
                               last, sa + e.dxa, sb + e.dxb, e, pass)
    ELSE st

\* ssd1306_fill_triangle: the handle afterwards, the runs drawn, and whether
\* a division by zero was reached
ssd1306_fill_triangle(d, px0, py0, px1, py1, px2, py2, color) ==
    LET s == SortVertices(px0, py0, px1, py1, px2, py2)
        x0 == s[1]   y0 == s[2]
        x1 == s[3]   y1 == s[4]
        x2 == s[5]   y2 == s[6]
        dx01 == ToI16(x1 - x0)   dy01 == ToI16(y1 - y0)
        dx02 == ToI16(x2 - x0)   dy02 == ToI16(y2 - y0)
        dx12 == ToI16(x2 - x1)   dy12 == ToI16(y2 - y1)
        last == IF y1 = y2 THEN y1 ELSE ToI16(y1 - 1)
        st0 == [d |-> d, y |-> y0, runs |-> <<>>, div0 |-> FALSE]
        top == ScanLoop(st0, last, 0, 0,
                        [xa |-> x0, dxa |-> dx01, dya |-> dy01,
                         xb |-> x0, dxb |-> dx02, dyb |-> dy02, color |-> color], "top")
    IN IF y0 = y2 THEN st0
       ELSE ScanLoop(top, y2, dx12 * (top.y - y1), dx02 * (top.y - y0),
                     [xa |-> x1, dxa |-> dx12, dya |-> dy12,
                      xb |-> x0, dxb |-> dx02, dyb |-> dy02, color |-> color], "bottom")

\* draw_line between two points, given in either order: along a row, along a
\* column, oblique, and ending in column 32767
DrawLineAny ==
    /\ CanCall(ShapeOps)
    /\ \E s \in {<<0, 0, 3, 0>>, <<0, 17, 2, 17>>, <<1, 2, 1, 10>>, <<0, 0, 2, 5>>,
                 <<1, 20, 3, 18>>, <<32766, 0, 32767, 1>>},
          rev \in BOOLEAN, color \in {OLED_COLOR_WHITE, OLED_COLOR_INVERT} :
            LET a == IF rev THEN <<s[3], s[4], s[1], s[2]>> ELSE s
            IN Draw(ssd1306_draw_line(Dev, a[1], a[2], a[3], a[4], color),
                    "draw_line", a \o <<color>>)

\* draw_arc of radius 1 about (1, 1): a quarter, a quarter whose end angle is
\* below its start angle, and angles at the top of the int16_t range
DrawArc ==
    /\ CanCall(ShapeOps)
    /\ \E g \in {<<0, 90>>, <<270, 0>>, <<180, 185>>, <<32760, 32767>>, <<32767, 32700>>},
          color \in {OLED_COLOR_WHITE, OLED_COLOR_INVERT} :
            Draw(ssd1306_draw_arc(Dev, 1, 1, 1, g[1], g[2], color),
                 "draw_arc", <<1, 1, 1, g[1], g[2], color>>)

\* fill_triangle; a division by zero either traps (fault) or yields some
\* quotient, with which the loop that reached it runs on
FillTriangle ==
    /\ CanCall(ShapeOps)
    /\ \E p \in {<<0, 0, 3, 2, 1, 5>>, <<1, 5, 0, 0, 3, 2>>, <<0, 1, 3, 1, 1, 4>>,
                 <<1, 0, 0, 3, 3, 3>>, <<0, 2, 1, 2, 3, 2>>, <<2, 9, 0, 12, 3, 20>>,
                 <<0, -32768, 1, -32768, 0, -32767>>, <<0, 32766, 0, 32767, 1, 32767>>},
          color \in {OLED_COLOR_WHITE, OLED_COLOR_INVERT}, traps \in BOOLEAN :
            LET r == ssd1306_fill_triangle(Dev, p[1], p[2], p[3], p[4], p[5], p[6], color)
                d == IF r.div0 /\ ~traps THEN [r.d EXCEPT !.hang = TRUE] ELSE r.d
            IN /\ traps => r.div0
               /\ CommitCore(d, "fill_triangle", p \o <<color, r.runs, r.div0>>, "void",
                             <<>>, ram, win)
               /\ fault' = IF r.div0 /\ traps THEN "div0" ELSE fault
               /\ UNCHANGED <<out_handle, held, text>>

NextShape == DrawLineAny \/ DrawArc \/ FillTriangle

SpecShape == InitLine /\ [][NextShape]_vars

\* C27: draw_line(x0, y0, x1, y1, color) and draw_line(x1, y1, x0, y0, color)
\* leave the same framebuffer, and a line along a row or a column writes both
\* of its end points whichever is given first (draw_line(3, 0, 0, 0, ON) sets
\* the pixels x = 0 .. 3 of row 0).
C27_LineSymmetric ==
    (LastIs("draw_line") /\ ~hang) =>
        LET a == hist[1].args
            back == ssd1306_draw_line(DevBefore, a[3], a[4], a[1], a[2], a[5])
        IN /\ ~back.hang => buffer = back.buffer
           /\ (a[5] = OLED_COLOR_WHITE /\ (a[1] = a[3] \/ a[2] = a[4])) =>
                  PixelOn(buffer, a[1], a[2]) /\ PixelOn(buffer, a[3], a[4])


\* C28: fill_triangle never divides by an edge height of zero: with all three
\* y equal nothing is drawn and the framebuffer is unchanged; with exactly two
\* equal the pass along the flat edge executes no iteration; and in every
\* triangle that is drawn each scanline y from the lowest to the highest
\* vertex y receives exactly one horizontal run.
C28_TriangleNoZeroDivision ==
    LastIs("fill_triangle") =>
        LET a == hist[1].args
            runs == a[8]
            ys == {a[2], a[4], a[6]}
            lowest == CHOOSE v \in ys : \A u \in ys : v <= u
            highest == CHOOSE v \in ys : \A u \in ys : v >= u
            middle == SortVertices(a[1], a[2], a[3], a[4], a[5], a[6])[4]
        IN /\ ~a[9]
           /\ fault = "none"
           /\ Cardinality(ys) = 1 => (runs = <<>> /\ buffer = bufs[1] /\ Tracker(Dev) = pre)
           /\ (Cardinality(ys) = 2 /\ middle = lowest) =>
                  \A k \in DOMAIN runs : runs[k].pass # "top"
           /\ (Cardinality(ys) = 2 /\ middle = highest) =>
                  \A k \in DOMAIN runs : runs[k].pass # "bottom"
           /\ Cardinality(ys) > 1 =>
                  \A y \in lowest .. highest :
                      Cardinality({k \in DOMAIN runs : runs[k].y = y}) = 1

\* C29: draw_line and draw_arc return for every int16 argument: the Bresenham
\* loop ends when an end point has coordinate 32767, and draw_arc's angle
\* normalisation and sweep end for angles near the top of the int16 range.
C29_LineAndArcTerminate ==
    (LastIs("draw_line") \/ LastIs("draw_arc")) => ~hang


----------------------------------------------------------------------------
(* SpecScroll: the horizontal hardware scroll commands *)

\* calls in a run of SpecScroll
ScrollOps == 2

OLED_CMD_ACTIVATE_SCROLL == 47
OLED_CMD_RIGHT_HORIZONTAL_SCROLL == 38
OLED_CMD_LEFT_HORIZONTAL_SCROLL == 39

\* ssd1306_stop_scroll on a live handle: the transactions the bus saw
ssd1306_stop_scroll(outs) ==
    <<ssd1306_send_cmd_list(<<OLED_CMD_DEACTIVATE_SCROLL>>, outs).tx>>

\* a start that activates the scroll before it stops and configures it
StartScrollActivatesFirst(scroll_cmd, start_page, end_page, io) ==
    IF start_page > 7 \/ end_page > 7 \/ start_page > end_page THEN <<>>
    ELSE <<ssd1306_send_cmd_list(<<OLED_CMD_ACTIVATE_SCROLL>>, io.activate).tx>>
         \o ssd1306_stop_scroll(io.stop)
         \o <<ssd1306_send_cmd_list(<<scroll_cmd, 0, start_page, 0, end_page, 0, 255>>,
                                    io.setup).tx>>

\* _ssd1306_start_scroll on a live handle: the transactions the bus saw.  No
\* value returned by _ssd1306_send_cmd_list is looked at.  io: the attempts of
\* the three command transactions
ssd1306_start_scroll(scroll_cmd, start_page, end_page, io) ==
    IF start_page > 7 \/ end_page > 7 \/ start_page > end_page THEN <<>>
    ELSE ssd1306_stop_scroll(io.stop)
         \o <<ssd1306_send_cmd_list(<<scroll_cmd, 0, start_page, 0, end_page, 0, 255>>,
                                    io.setup).tx>>
         \o <<ssd1306_send_cmd_list(<<OLED_CMD_ACTIVATE_SCROLL>>, io.activate).tx>>

ssd1306_start_scroll_right(start_page, end_page, io) ==
    ssd1306_start_scroll(OLED_CMD_RIGHT_HORIZONTAL_SCROLL, start_page, end_page, io)

ssd1306_start_scroll_left(start_page, end_page, io) ==
    ssd1306_start_scroll(OLED_CMD_LEFT_HORIZONTAL_SCROLL, start_page, end_page, io)

\* uint8_t start_page, end_page: ranges inside 0..7, reversed, and past page 7
ScrollPages == {<<0, 7>>, <<2, 2>>, <<1, 0>>, <<0, 8>>, <<200, 255>>}

\* how the three command transactions of a start can go
ScrollOutcomes ==
    {[stop |-> FailFirst(a[1]), setup |-> FailFirst(a[2]), activate |-> FailFirst(a[3])] :
        a \in {<<0, 0, 0>>, <<CmdRetries, 0, 0>>, <<0, 1, 0>>, <<0, CmdRetries, 0>>,
               <<0, 0, CmdRetries>>}}

StartScrollRight ==
    /\ CanCall(ScrollOps)
    /\ \E p \in ScrollPages, io \in ScrollOutcomes :
            Commit(Dev, "start_scroll_right", p, "void",
                   ssd1306_start_scroll_right(p[1], p[2], io), ram, win)

StartScrollLeft ==
    /\ CanCall(ScrollOps)
    /\ \E p \in ScrollPages, io \in ScrollOutcomes :
            Commit(Dev, "start_scroll_left", p, "void",
                   ssd1306_start_scroll_left(p[1], p[2], io), ram, win)

StopScroll ==
    /\ CanCall(ScrollOps)
    /\ \E outs \in RetryCases :
            Commit(Dev, "stop_scroll", <<>>, "void", ssd1306_stop_scroll(outs), ram, win)

\* a pixel drawn between scroll commands
DrawWhileScrolling ==
    /\ CanCall(ScrollOps)
    /\ Draw(ssd1306_draw_pixel(Dev, 1, 9, OLED_COLOR_INVERT), "draw_pixel",
            <<1, 9, OLED_COLOR_INVERT>>)

NextScroll == StartScrollRight \/ StartScrollLeft \/ StopScroll \/ DrawWhileScrolling

SpecScroll == InitLine /\ [][NextScroll]_vars

\* C30: start_scroll_right / start_scroll_left with start <= end <= 7 send
\* exactly three command transactions, in this order: deactivate-scroll
\* (0x2E), the scroll setup (0x26 for right, 0x27 for left, with the start
\* and the end page), activate-scroll (0x2F), so the activate is never sent
\* before the deactivate and the setup of the same call; with start > 7,
\* end > 7 or start > end no transaction is sent and framebuffer, tracker and
\* graphics state are as before.
C30_ScrollCommandOrder ==
    (LastIs("start_scroll_right") \/ LastIs("start_scroll_left")) =>
        LET start_page == hist[1].args[1]
            end_page == hist[1].args[2]
            setup == IF hist[1].op = "start_scroll_right" THEN 38 ELSE 39
        IN IF start_page <= end_page /\ end_page <= 7
           THEN /\ Len(bus) = 3
                /\ \A k \in 1 .. 3 : bus[k].ctl = OLED_CONTROL_BYTE_CMD_STREAM
                /\ bus[1].bytes = <<46>>
                /\ bus[2].bytes = <<setup, 0, start_page, 0, end_page, 0, 255>>
                /\ bus[3].bytes = <<47>>
                /\ \A k \in 1 .. 3 : Len(bus[k].results) \in 1 .. 3
                /\ buffer = bufs[1] /\ Tracker(Dev) = pre
           ELSE /\ bus = <<>>
                /\ buffer = bufs[1] /\ Tracker(Dev) = pre
                /\ text = DefaultText /\ ~oob /\ ~hang /\ fault = "none"

\* C30 witness: a left scroll over pages 2..2, started on a dirty instance,
\* whose setup transaction went through at its second attempt
C30_Witness ==
    /\ LastIs("start_scroll_left")
    /\ hist[1].args = <<2, 2>>
    /\ Len(bus) = 3
    /\ bus[2].results = <<FALSE, TRUE>>
    /\ bus[2].bytes[1] = OLED_CMD_LEFT_HORIZONTAL_SCROLL
    /\ hist[1].prev = "draw_pixel" /\ needs_update

=============================================================================
